---- MODULE Spec2Model ----
(***************************************************************************)
(* PPI network construction and analysis of the herbal                     *)
(* network-pharmacology pipeline: NetworkBuilder                           *)
(* (src/src/network/builder.py) and NetworkAnalyzer                        *)
(* (src/src/network/analyzer.py) as a state machine.                       *)
(*                                                                         *)
(* A gene symbol is a sequence of characters, so that str.upper() and      *)
(* str.strip() are computed character by character.  The files the builder *)
(* reads, the gene list a caller passes and the answer of the STRING       *)
(* service are inputs, drawn from bounded sets.                            *)
(***************************************************************************)
EXTENDS Integers, Sequences, FiniteSets, TLC

VARIABLES
    drug_source,     \* data/processed: unique_targets.txt or predicted_targets.csv
    disease_source,  \* data/raw: disease_gene_symbols.txt or disease_genes.csv
    drug_targets,    \* NetworkBuilder.drug_targets
    disease_genes,   \* NetworkBuilder.disease_genes
    common_targets,  \* NetworkBuilder.common_targets
    venn_data,       \* data/processed/venn_data.json
    network,         \* NetworkBuilder.network: None, or Some(graph)
    exported,        \* data/results: the network files written by save_network
    last_build,      \* the last build_ppi_network call: its inputs and its outcome
    calls,           \* number of build_ppi_network calls made so far
    analyzer,        \* the NetworkAnalyzer: its network, hub_genes, centrality_metrics
    last_call,       \* the last call of a NetworkAnalyzer method and its outcome
    graphs,          \* the nx.Graph objects build_ppi_network has made, by identity
    network_id,      \* the identity of the object NetworkBuilder.network is, 0 for None
    builds,          \* the build_ppi_network calls made so far, in order
    saved_at,        \* the number of build_ppi_network calls made before the last save_network
    clustering,      \* the last perform_clustering call and its outcome
    analysis_files,  \* data/results: the files written by save_analysis
    config           \* the last Config._deep_merge call: its dicts and its result

vars == <<drug_source, disease_source, drug_targets, disease_genes,
          common_targets, venn_data, network, exported, last_build, calls,
          analyzer, last_call, graphs, network_id, builds, saved_at,
          clustering, analysis_files, config>>

\* the state outside the builder and the calls of the analyzer
aside == <<clustering, analysis_files, config>>

----------------------------------------------------------------------------
(* Bounds of the model *)

\* longest line of a gene-list file, in characters
MaxLineLen == 2

\* most rows of a gene-list file
MaxFileLines == 2

\* longest gene list passed to build_ppi_network
MaxGenes == 2

\* most interaction records in one answer of the service
MaxRecords == 2

\* most build_ppi_network calls on one builder
MaxRebuilds == 2

----------------------------------------------------------------------------
(* Characters and strings *)

\* the characters of the gene-list files
FileChars == {"a", "A", " "}

Whitespace == {" "}

\* str.upper(), one character
UpperChar(c) ==
    CASE c = "a" -> "A"
      [] c = "b" -> "B"
      [] OTHER -> c

\* str.upper()
Upper(s) == [i \in 1..Len(s) |-> UpperChar(s[i])]

\* str.strip(): leading and trailing whitespace removed
Strip(s) ==
    LET keep == {i \in 1..Len(s) : s[i] \notin Whitespace}
    IN  IF keep = {} THEN <<>>
        ELSE LET lo == CHOOSE i \in keep : \A j \in keep : i <= j
                 hi == CHOOSE i \in keep : \A j \in keep : j <= i
             IN  SubSeq(s, lo, hi)

\* set(list)
ToSet(s) == {s[i] : i \in 1..Len(s)}

\* the sequences over S of length at most n
SeqsUpTo(S, n) == UNION {[1..k -> S] : k \in 0..n}

\* a list is duplicate free
NoDuplicates(s) == \A i, j \in 1..Len(s) : s[i] = s[j] => i = j

\* list(set): the members of a set in some order, each once
ListsOf(S) == {s \in [1..Cardinality(S) -> S] : ToSet(s) = S}

----------------------------------------------------------------------------
(* Gene-list files *)

\* a row of a gene-list file: a text line, or a cell of the gene_symbol
\* column (na: the cell is empty, pandas reads it as NaN)
Row(v) == [na |-> FALSE, val |-> v]

NaRow == [na |-> TRUE, val |-> <<>>]

Lines == SeqsUpTo(FileChars, MaxLineLen)

TxtSources == {[kind |-> "txt", rows |-> r] :
                  r \in SeqsUpTo({Row(l) : l \in Lines}, MaxFileLines)}

\* the cells of a gene_symbol column that hold a symbol
Cells == SeqsUpTo(FileChars \ Whitespace, MaxLineLen) \ {<<>>}

CsvSources == {[kind |-> "csv", rows |-> r] :
                  r \in SeqsUpTo({Row(c) : c \in Cells} \cup {NaRow}, MaxFileLines)}

\* neither the text file nor the CSV file exists
NoSource == [kind |-> "none", rows |-> <<>>]

Sources == TxtSources \cup CsvSources \cup {NoSource}

\* the rows a text file's comprehension keeps: those with line.strip() non-empty
NonBlank(rows) == SelectSeq(rows, LAMBDA r : Strip(r.val) # <<>>)

\* the cells dropna() keeps
NotNa(rows) == SelectSeq(rows, LAMBDA r : ~r.na)

\* Series.unique(): first occurrences, in order
RECURSIVE Unique(_)
Unique(s) ==
    IF s = <<>> THEN <<>>
    ELSE LET init == Unique(SubSeq(s, 1, Len(s) - 1))
             last == s[Len(s)]
         IN  IF last \in ToSet(init) THEN init ELSE Append(init, last)

\* [line.strip() for line in f if line.strip()], without the case change
LoadLinesAsWritten(rows) ==
    [i \in 1..Len(NonBlank(rows)) |-> Strip(NonBlank(rows)[i].val)]

\* [line.strip().upper() for line in f if line.strip()]
LoadLines(rows) ==
    [i \in 1..Len(NonBlank(rows)) |-> Upper(Strip(NonBlank(rows)[i].val))]

\* list(df["gene_symbol"].dropna().str.upper().unique())
LoadColumn(rows) ==
    Unique([i \in 1..Len(NotNa(rows)) |-> Upper(NotNa(rows)[i].val)])

\* the list a load_* method stores: from the text file when it exists, else
\* from the CSV file when it exists, else the list is left as it was
Loaded(source, old) ==
    CASE source.kind = "txt" -> LoadLines(source.rows)
      [] source.kind = "csv" -> LoadColumn(source.rows)
      [] OTHER -> old

\* drug_set & disease_set
CommonSet(drugs, diseases) == ToSet(drugs) \cap ToSet(diseases)

\* the contents of venn_data.json (each list(set) is kept as the set it lists)
VennData(drugs, diseases, common) ==
    [drug_targets_only |-> ToSet(drugs) \ ToSet(diseases),
     disease_genes_only |-> ToSet(diseases) \ ToSet(drugs),
     common |-> common]

----------------------------------------------------------------------------
(* Optional values: None is <<>>, a value v is <<v>> *)

None == <<>>

Some(v) == <<v>>

\* dict.get(key, default) on an optional field
Get(field, default) == IF field = None THEN default ELSE field[1]

----------------------------------------------------------------------------
(* networkx.Graph: nodes in insertion order, undirected edges with a weight *)

\* nx.Graph()
EmptyGraph == [nodes |-> <<>>, edges |-> [e \in {} |-> 0]]

Nodes(g) == ToSet(g.nodes)

Edges(g) == DOMAIN g.edges

\* Graph.add_node(n)
AddNode(g, n) ==
    IF n \in Nodes(g) THEN g ELSE [g EXCEPT !.nodes = Append(@, n)]

\* add_edge that stores the edge without making its endpoints nodes
AddEdgeNoNodes(g, u, v, w) ==
    [g EXCEPT !.edges = [e \in DOMAIN g.edges \cup {{u, v}} |->
                            IF e = {u, v} THEN w ELSE g.edges[e]]]

\* add_edge that leaves an edge that exists already as it is
AddEdgeKeepFirst(g, u, v, w) ==
    LET g1 == AddNode(AddNode(g, u), v)
    IN  IF {u, v} \in DOMAIN g.edges THEN g1
        ELSE [g1 EXCEPT !.edges = [e \in DOMAIN g1.edges \cup {{u, v}} |->
                                      IF e = {u, v} THEN w ELSE g1.edges[e]]]

\* Graph.add_edge(u, v, weight=w): both endpoints become nodes, and the
\* weight of an edge that exists already is overwritten
AddEdge(g, u, v, w) ==
    LET g1 == AddNode(AddNode(g, u), v)
    IN  [g1 EXCEPT !.edges = [e \in DOMAIN g1.edges \cup {{u, v}} |->
                                 IF e = {u, v} THEN w ELSE g1.edges[e]]]

\* Graph.degree(n): a self-loop counts twice
Degree(g, n) ==
    Cardinality({e \in Edges(g) : n \in e}) + (IF {n} \in Edges(g) THEN 1 ELSE 0)

----------------------------------------------------------------------------
(* The STRING service *)

\* api.string.score_threshold, the default of NetworkBuilder.__init__
ScoreThreshold == 400

\* the protein identifier STRING gives beside a preferred name
StringId == <<"9">>

\* gene symbols a caller passes
GeneNames == {<<"A">>, <<"B">>, <<"a">>}

\* the preferred names of the proteins the service knows
PreferredNames == {<<"A">>, <<"B">>}

\* confidence scores, on the scale of ScoreThreshold
Scores == {300, 900}

Interaction(prefA, idA, prefB, idB, score) ==
    [preferredName_A |-> prefA, stringId_A |-> idA,
     preferredName_B |-> prefB, stringId_B |-> idB, score |-> score]

\* records with every key present
FullRecords ==
    {Interaction(Some(a), Some(StringId), Some(b), Some(StringId), Some(s)) :
        a \in PreferredNames, b \in PreferredNames, s \in Scores}

\* records that spell a name in lower case, hold an empty name or lack a key
PartialRecords ==
    {Interaction(Some(<<"a">>), Some(StringId), Some(<<"B">>), Some(StringId), Some(900)),
     Interaction(Some(<<>>), Some(StringId), Some(<<"B">>), Some(StringId), Some(900)),
     Interaction(None, Some(StringId), Some(<<"B">>), Some(StringId), Some(900)),
     Interaction(None, None, Some(<<"B">>), Some(StringId), Some(900)),
     Interaction(Some(<<"A">>), Some(StringId), Some(<<"B">>), Some(StringId), None)}

Records == FullRecords \cup PartialRecords

\* what requests.post gives: an exception, a status other than 200, or a
\* status 200 whose JSON body is a list of records
Reply(status, body) == [status |-> status, body |-> body]

Replies ==
    {Reply("exception", <<>>), Reply("http_error", <<>>)}
        \cup {Reply("ok", b) : b \in SeqsUpTo(Records, MaxRecords)}

\* no request was made
NoReply == Reply("none", <<>>)

\* _query_string_network: the records of a 200 answer, [] on any failure
QueryStringNetwork(reply) ==
    IF reply.status = "ok" THEN reply.body ELSE <<>>

----------------------------------------------------------------------------
(* build_ppi_network *)

\* interaction.get("preferredName_A", interaction.get("stringId_A", ""))
Node1(i) == Get(i.preferredName_A, Get(i.stringId_A, <<>>))

Node2(i) == Get(i.preferredName_B, Get(i.stringId_B, <<>>))

\* interaction.get("score", 0)
Score(i) == Get(i.score, 0)

\* one turn of the loop over the interactions
AddInteraction(g, i) ==
    IF Node1(i) # <<>> /\ Node2(i) # <<>>
    THEN AddEdge(g, Node1(i), Node2(i), Score(i))
    ELSE g

\* the loop over the interactions
RECURSIVE AddInteractions(_, _)
AddInteractions(g, interactions) ==
    IF interactions = <<>> THEN g
    ELSE AddInteractions(AddInteraction(g, Head(interactions)), Tail(interactions))

\* the loop over the genes left out
AddIsolatedNone(g, genes) == g

\* the loop that adds the genes with no interactions
RECURSIVE AddIsolated(_, _)
AddIsolated(g, genes) ==
    IF genes = <<>> THEN g
    ELSE AddIsolated(AddNode(g, Head(genes)), Tail(genes))

\* the graph build_ppi_network assembles from a gene list and the records
Assemble(genes, interactions) ==
    AddIsolated(AddInteractions(EmptyGraph, interactions), genes)

\* self.network assigned before the test for an empty gene list
NetworkAfterBuildAlways(old, genes, reply) ==
    Some(Assemble(genes, QueryStringNetwork(reply)))

\* self.network if a call added its nodes and its edges to the graph the
\* builder holds, the weight of an edge that is there already growing by
\* the new one
NetworkAfterBuildOnto(old, genes, reply) ==
    IF genes = <<>> THEN old
    ELSE LET held == IF old = None THEN EmptyGraph ELSE old[1]
             new == Assemble(genes, QueryStringNetwork(reply))
             weight(g, e) == IF e \in Edges(g) THEN g.edges[e] ELSE 0
         IN  Some([nodes |-> held.nodes \o
                                SelectSeq(new.nodes, LAMBDA n : n \notin Nodes(held)),
                   edges |-> [e \in Edges(held) \cup Edges(new) |->
                                 weight(held, e) + weight(new, e)]])

\* self.network after a call: untouched when there are no genes (the early
\* return), else the graph assembled from the records of the query
NetworkAfterBuild(old, genes, reply) ==
    IF genes = <<>> THEN old
    ELSE Some(Assemble(genes, QueryStringNetwork(reply)))

\* the value a call returns: nx.Graph() when there are no genes, else
\* self.network
ReturnedGraph(old, genes, reply) ==
    IF genes = <<>> THEN EmptyGraph
    ELSE NetworkAfterBuild(old, genes, reply)[1]

\* the object a call would fill if it emptied the graph the builder holds
\* and used it again
GraphToRefill(heap, id) == IF id = 0 THEN Len(heap) + 1 ELSE id

\* the object a call on a gene list that is not empty fills: self.network =
\* nx.Graph() makes an object that is none of those made before
GraphToFill(heap, id) == Len(heap) + 1

\* the graph objects after a call, heap being the objects before it and id
\* the identity of self.network: a call on no gene makes the empty graph it
\* returns, another call makes the object it fills and returns
GraphsAfterBuild(heap, id, genes, reply) ==
    IF genes = <<>> THEN Append(heap, EmptyGraph)
    ELSE LET filled == GraphToFill(heap, id)
             built == Assemble(genes, QueryStringNetwork(reply))
         IN  IF filled > Len(heap) THEN Append(heap, built)
             ELSE [heap EXCEPT ![filled] = built]

\* the identity of self.network after a call
NetworkIdAfterBuild(heap, id, genes) ==
    IF genes = <<>> THEN id ELSE GraphToFill(heap, id)

\* the record of a call that sends its request once more when the first
\* one failed
BuildCallRetrying(genes, reply, returned) ==
    [called |-> TRUE,
     genes |-> genes,
     queries |-> IF genes = <<>> THEN 0
                 ELSE IF reply.status = "ok" THEN 1 ELSE 2,
     reply |-> IF genes = <<>> THEN NoReply ELSE reply,
     outcome |-> "returned",
     returned |-> returned]

\* the record of a build_ppi_network call: the gene list it worked on, the
\* requests it sent and the answer it got, how it ended and what it returned
BuildCall(genes, reply, returned) ==
    [called |-> TRUE,
     genes |-> genes,
     queries |-> IF genes = <<>> THEN 0 ELSE 1,
     reply |-> IF genes = <<>> THEN NoReply ELSE reply,
     outcome |-> "returned",
     returned |-> returned]

\* no call yet
NoCall ==
    [called |-> FALSE, genes |-> <<>>, queries |-> 0, reply |-> NoReply,
     outcome |-> "none", returned |-> EmptyGraph]

----------------------------------------------------------------------------
(* save_network *)

\* network_nodes.csv: one row per node, in node order
NodeRows(g) ==
    [i \in 1..Len(g.nodes) |-> [node |-> g.nodes[i], degree |-> Degree(g, g.nodes[i])]]

\* network_edges.csv: one row per edge
EdgeRows(g) == {[ends |-> e, weight |-> g.edges[e]] : e \in Edges(g)}

\* the files save_network writes for a graph
Export(g) == [graphml |-> g, edges_csv |-> EdgeRows(g), nodes_csv |-> NodeRows(g)]

----------------------------------------------------------------------------
(* Numbers of the analysis: fractions num/den in lowest terms, den > 0 *)

RECURSIVE GCD(_, _)
GCD(a, b) == IF b = 0 THEN a ELSE GCD(b, a % b)

\* the float n / d, for n >= 0 and d > 0
Frac(n, d) == LET k == GCD(n, d) IN [num |-> n \div k, den |-> d \div k]

Zero == Frac(0, 1)

One == Frac(1, 1)

\* {}: a dict of no entry
NoEntries == [n \in {} |-> Zero]

RatLess(a, b) == a.num * b.den < b.num * a.den

RatLeq(a, b) == a.num * b.den <= b.num * a.den

RatAdd(a, b) == Frac(a.num * b.den + b.num * a.den, a.den * b.den)

RatMul(a, b) == Frac(a.num * b.num, a.den * b.den)

\* a / b, for b > 0
RatDiv(a, b) == Frac(a.num * b.den, a.den * b.num)

\* sum(f[x] for x in S), integers
RECURSIVE SumInt(_, _)
SumInt(f, S) ==
    IF S = {} THEN 0
    ELSE LET x == CHOOSE y \in S : TRUE IN f[x] + SumInt(f, S \ {x})

\* sum(f[x] for x in S), fractions
RECURSIVE SumRat(_, _)
SumRat(f, S) ==
    IF S = {} THEN Zero
    ELSE LET x == CHOOSE y \in S : TRUE IN RatAdd(f[x], SumRat(f, S \ {x}))

\* max of the fractions f[x], x in S, S not empty
MaxRat(f, S) == LET x == CHOOSE y \in S : \A z \in S : RatLeq(f[z], f[y]) IN f[x]

----------------------------------------------------------------------------
(* networkx: shortest paths and components *)

\* G[n]: the neighbours of n, n itself when it has a self-loop
Neighbors(g, n) == {m \in Nodes(g) : {n, m} \in Edges(g)}

\* breadth-first search from the nodes of frontier, which are at distance d
RECURSIVE BFS(_, _, _, _)
BFS(g, frontier, dist, d) ==
    IF frontier = {} THEN dist
    ELSE LET next == UNION {Neighbors(g, n) : n \in frontier} \ DOMAIN dist
         IN  BFS(g, next, dist @@ [n \in next |-> d + 1], d + 1)

\* nx.single_source_shortest_path_length(G, s): the distance from s of each
\* node that s reaches
ShortestPathLength(g, s) == BFS(g, {s}, [n \in {s} |-> 0], 0)

\* the number of shortest paths from s to t, t reached from s
RECURSIVE Sigma(_, _, _)
Sigma(g, s, t) ==
    IF s = t THEN 1
    ELSE LET dist == ShortestPathLength(g, s)
             pred == {u \in Neighbors(g, t) \cap DOMAIN dist : dist[u] = dist[t] - 1}
         IN  SumInt([u \in pred |-> Sigma(g, s, u)], pred)

\* the nodes of the component of n
NodeComponent(g, n) == DOMAIN ShortestPathLength(g, n)

\* nx.connected_components(G), in the order they are generated: by the first
\* of their nodes in node order
ConnectedComponents(g) ==
    LET firsts == SelectSeq(g.nodes, LAMBDA n :
                     \A i \in 1..Len(g.nodes) :
                        g.nodes[i] \in NodeComponent(g, n) =>
                           \E j \in 1..i : g.nodes[j] = n)
    IN  [i \in 1..Len(firsts) |-> NodeComponent(g, firsts[i])]

\* the number of the components that have more than one node
NumberLinkedComponents(g) ==
    Len(SelectSeq(ConnectedComponents(g), LAMBDA c : Cardinality(c) > 1))

\* nx.number_connected_components(G)
NumberConnectedComponents(g) == Len(ConnectedComponents(g))

\* the last of the components, whatever its size
LastComponent(g) ==
    LET cc == ConnectedComponents(g)
    IN  cc[Len(cc)]

\* max(nx.connected_components(G), key=len): the first of the largest
LargestComponent(g) ==
    LET cc == ConnectedComponents(g)
        i == CHOOSE k \in 1..Len(cc) :
                /\ \A j \in 1..Len(cc) : Cardinality(cc[j]) <= Cardinality(cc[k])
                /\ \A j \in 1..(k - 1) : Cardinality(cc[j]) < Cardinality(cc[k])
    IN  cc[i]

\* G.subgraph(S)
Subgraph(g, S) ==
    [nodes |-> SelectSeq(g.nodes, LAMBDA n : n \in S),
     edges |-> [e \in {x \in Edges(g) : x \subseteq S} |-> g.edges[e]]]

\* nx.diameter(G), G connected: the largest distance between two nodes
Diameter(g) ==
    LET far == {ShortestPathLength(g, s)[t] : s \in Nodes(g), t \in Nodes(g)}
    IN  CHOOSE d \in far : \A x \in far : x <= d

\* nx.average_shortest_path_length(G), G connected: 0 for a single node
AverageShortestPathLength(g) ==
    LET n == Len(g.nodes)
        total == SumInt([s \in Nodes(g) |->
                            SumInt(ShortestPathLength(g, s), Nodes(g))], Nodes(g))
    IN  IF n = 1 THEN Zero ELSE Frac(total, n * (n - 1))

----------------------------------------------------------------------------
(* networkx: centralities *)

\* rounds of the power iteration the model runs
PowerRounds == 3

\* nx.degree_centrality(G): degree / (n - 1), and 1 for each node of a graph
\* of at most one node
DegreeCentrality(g) ==
    IF Len(g.nodes) <= 1 THEN NoEntries @@ [n \in Nodes(g) |-> One]
    ELSE NoEntries @@ [n \in Nodes(g) |-> Frac(Degree(g, n), Len(g.nodes) - 1)]

\* the number of shortest paths from s to t that pass through v
SigmaThrough(g, s, t, v) ==
    LET ds == ShortestPathLength(g, s)
        dv == ShortestPathLength(g, v)
    IN  IF v \in DOMAIN ds /\ t \in DOMAIN dv /\ ds[v] + dv[t] = ds[t]
        THEN Sigma(g, s, v) * Sigma(g, v, t)
        ELSE 0

\* nx.betweenness_centrality(G): over the ordered pairs (s, t) of other nodes
\* with t reached from s, the share of the shortest paths that pass through
\* v, scaled by 1 / ((n - 1)(n - 2)) when n > 2
BetweennessCentrality(g) ==
    LET n == Len(g.nodes)
        pairs(v) == {p \in Nodes(g) \X Nodes(g) :
                        /\ p[1] # p[2] /\ p[1] # v /\ p[2] # v
                        /\ p[2] \in NodeComponent(g, p[1])}
        raw(v) == SumRat([p \in pairs(v) |->
                             Frac(SigmaThrough(g, p[1], p[2], v), Sigma(g, p[1], p[2]))],
                         pairs(v))
    IN  NoEntries @@
        [v \in Nodes(g) |->
            IF n <= 2 THEN raw(v) ELSE RatDiv(raw(v), Frac((n - 1) * (n - 2), 1))]

\* nx.closeness_centrality(G), wf_improved: (r - 1) / totsp scaled by
\* (r - 1) / (n - 1), r the number of nodes reached; 0 for a node that
\* reaches no other
ClosenessCentrality(g) ==
    NoEntries @@
    [u \in Nodes(g) |->
        LET sp == ShortestPathLength(g, u)
            totsp == SumInt(sp, DOMAIN sp)
            r == Cardinality(DOMAIN sp)
        IN  IF totsp > 0 /\ Len(g.nodes) > 1
            THEN RatMul(Frac(r - 1, totsp), Frac(r - 1, Len(g.nodes) - 1))
            ELSE Zero]

\* one round of the power iteration with A + I: x[nbr] += xlast[n] for each
\* nbr in G[n]
PowerStep(g, x) ==
    NoEntries @@ [m \in Nodes(g) |-> x[m] + SumInt(x, Neighbors(g, m))]

RECURSIVE PowerIterate(_, _, _)
PowerIterate(g, x, rounds) ==
    IF rounds = 0 THEN x ELSE PowerIterate(g, PowerStep(g, x), rounds - 1)

\* nx.eigenvector_centrality(G) when the iteration converges, G not empty:
\* the iterate from the all-ones start.  Its entries are kept in proportion
\* (divided by their sum, where networkx divides by their Euclidean norm),
\* which is what the order of the nodes and the quotients by the largest
\* entry depend on.
EigenvectorCentrality(g) ==
    LET x == PowerIterate(g, [n \in Nodes(g) |-> 1], PowerRounds)
        total == SumInt(x, Nodes(g))
    IN  NoEntries @@ [n \in Nodes(g) |-> Frac(x[n], total)]

----------------------------------------------------------------------------
(* networkx: statistics *)

\* nx.density(G)
Density(g) ==
    LET n == Len(g.nodes)
        m == Cardinality(Edges(g))
    IN  IF m = 0 \/ n <= 1 THEN Zero ELSE Frac(2 * m, n * (n - 1))

\* sum(dict(G.degree()).values()) / n, 0 for the graph with no node
AverageDegree(g) ==
    IF Len(g.nodes) > 0
    THEN Frac(SumInt([n \in Nodes(g) |-> Degree(g, n)], Nodes(g)), Len(g.nodes))
    ELSE Zero

\* nx.is_connected(G), G not empty
IsConnected(g) == NodeComponent(g, g.nodes[1]) = Nodes(g)

\* nx.clustering(G, v): the share of the pairs of neighbours of v that are
\* adjacent; self-loops are left out
Clustering(g, v) ==
    LET vs == Neighbors(g, v) \ {v}
        d == Cardinality(vs)
        t == SumInt([w \in vs |-> Cardinality(vs \cap (Neighbors(g, w) \ {w}))], vs)
    IN  IF t = 0 THEN Zero ELSE Frac(t, d * (d - 1))

\* nx.average_clustering(G), G not empty
AverageClustering(g) ==
    RatDiv(SumRat([v \in Nodes(g) |-> Clustering(g, v)], Nodes(g)),
           Frac(Len(g.nodes), 1))

----------------------------------------------------------------------------
(* NetworkAnalyzer: the centrality table *)

\* self.centrality_metrics = {}
NoMetrics ==
    [degree |-> NoEntries, betweenness |-> NoEntries,
     closeness |-> NoEntries, eigenvector |-> NoEntries]

\* dict.get(node, 0)
DictGet(d, node) == IF node \in DOMAIN d THEN d[node] ELSE Zero

\* centrality_metrics after the three calculate_* calls that cannot fail
\* to converge
MetricsBeforeEigenvector(metrics, g) ==
    [metrics EXCEPT !.degree = DegreeCentrality(g),
                    !.betweenness = BetweennessCentrality(g),
                    !.closeness = ClosenessCentrality(g)]

\* centrality_metrics after the four calculate_* calls of
\* calculate_all_centralities, g not empty: when the power iteration does not
\* converge, calculate_eigenvector_centrality returns {} and stores nothing
MetricsAfter(metrics, g, converges) ==
    [MetricsBeforeEigenvector(metrics, g) EXCEPT
        !.eigenvector = IF converges THEN EigenvectorCentrality(g) ELSE @]

\* a table with rows for the nodes that have an edge only
CentralityTableOfLinked(g, metrics) ==
    LET linked == SelectSeq(g.nodes, LAMBDA n : Degree(g, n) > 0)
    IN  <<>> \o
        [i \in 1..Len(linked) |->
            [gene |-> linked[i],
             degree |-> Degree(g, linked[i]),
             degree_centrality |-> DictGet(metrics.degree, linked[i]),
             betweenness_centrality |-> DictGet(metrics.betweenness, linked[i]),
             closeness_centrality |-> DictGet(metrics.closeness, linked[i]),
             eigenvector_centrality |-> DictGet(metrics.eigenvector, linked[i]),
             norm |-> None,
             combined_score |-> None]]

\* the DataFrame of calculate_all_centralities: one row per node of
\* self.network.nodes(), in node order
CentralityTable(g, metrics) ==
    <<>> \o
    [i \in 1..Len(g.nodes) |->
        [gene |-> g.nodes[i],
         degree |-> Degree(g, g.nodes[i]),
         degree_centrality |-> DictGet(metrics.degree, g.nodes[i]),
         betweenness_centrality |-> DictGet(metrics.betweenness, g.nodes[i]),
         closeness_centrality |-> DictGet(metrics.closeness, g.nodes[i]),
         eigenvector_centrality |-> DictGet(metrics.eigenvector, g.nodes[i]),
         norm |-> None,
         combined_score |-> None]]

----------------------------------------------------------------------------
(* NetworkAnalyzer: identify_hub_genes *)

\* analysis.hub_gene_top_n, the default of identify_hub_genes
TopNDefault == 10

\* the method strings the code names
Methods == {"degree", "betweenness", "closeness", "eigenvector", "combined"}

\* column / max_val when max_val > 0, else 0: the _norm columns of a row
NormalizedBy(table, row) ==
    LET rows == DOMAIN table
        norm(col) ==
            LET max_val == MaxRat([i \in rows |-> col[i]], rows)
            IN  IF RatLess(Zero, max_val) THEN RatDiv(col[row], max_val) ELSE Zero
    IN  [degree |-> norm([i \in rows |-> table[i].degree_centrality]),
         betweenness |-> norm([i \in rows |-> table[i].betweenness_centrality]),
         closeness |-> norm([i \in rows |-> table[i].closeness_centrality]),
         eigenvector |-> norm([i \in rows |-> table[i].eigenvector_centrality])]

\* centrality_df[norm_cols].mean(axis=1)
MeanOfNorms(norm) ==
    RatDiv(RatAdd(RatAdd(norm.degree, norm.betweenness),
                  RatAdd(norm.closeness, norm.eigenvector)),
           Frac(4, 1))

\* the table with the _norm columns and combined_score
WithCombined(table) ==
    <<>> \o
    [i \in DOMAIN table |->
        LET norm == NormalizedBy(table, i)
        IN  [table[i] EXCEPT !.norm = Some(norm),
                             !.combined_score = Some(MeanOfNorms(norm))]]

\* the column the rows are sorted by
SortColumn(row, method) ==
    CASE method = "combined" -> row.combined_score[1]
      [] method = "degree" -> Frac(row.degree, 1)
      [] method = "betweenness" -> row.betweenness_centrality
      [] method = "closeness" -> row.closeness_centrality
      [] method = "eigenvector" -> row.eigenvector_centrality

\* DataFrame.sort_values(column, ascending=False): rows of equal value stay
\* in the order of the table (numpy sorts so short an array by insertion)
SortValues(table, method) ==
    LET before(j, i) ==
            \/ RatLess(SortColumn(table[i], method), SortColumn(table[j], method))
            \/ /\ SortColumn(table[i], method) = SortColumn(table[j], method)
               /\ j < i
        place(i) == 1 + Cardinality({j \in DOMAIN table : before(j, i)})
    IN  <<>> \o
        [k \in DOMAIN table |-> table[CHOOSE i \in DOMAIN table : place(i) = k]]

\* DataFrame.head(n): the first n rows, all but the last -n when n < 0
HeadRows(table, n) ==
    LET keep == IF n >= 0 THEN (IF n <= Len(table) THEN n ELSE Len(table))
                ELSE IF Len(table) + n > 0 THEN Len(table) + n ELSE 0
    IN  SubSeq(table, 1, keep)

\* the list identify_hub_genes returns for a table, method in Methods
HubGenes(table, top_n, method) ==
    LET centrality_df == IF method = "combined" THEN WithCombined(table) ELSE table
        sorted_df == SortValues(centrality_df, method)
    IN  HeadRows(sorted_df, top_n)

----------------------------------------------------------------------------
(* NetworkAnalyzer: get_network_statistics *)

\* the dict get_network_statistics returns for a graph that is not empty; a
\* key the dict does not hold is None
NetworkStatistics(g) ==
    LET connected == IsConnected(g)
        largest_cc == LargestComponent(g)
        subgraph == Subgraph(g, largest_cc)
        more == ~connected /\ Cardinality(largest_cc) > 1
    IN  [nodes |-> Len(g.nodes),
         edges |-> Cardinality(Edges(g)),
         density |-> Density(g),
         average_degree |-> AverageDegree(g),
         diameter |-> IF connected THEN Some(Diameter(g)) ELSE None,
         average_path_length |->
             IF connected THEN Some(AverageShortestPathLength(g)) ELSE None,
         largest_component_nodes |->
             IF connected THEN None ELSE Some(Cardinality(largest_cc)),
         number_of_components |->
             IF connected THEN None ELSE Some(NumberConnectedComponents(g)),
         diameter_largest |-> IF more THEN Some(Diameter(subgraph)) ELSE None,
         average_path_length_largest |->
             IF more THEN Some(AverageShortestPathLength(subgraph)) ELSE None,
         average_clustering |-> AverageClustering(g)]

\* no dict: the call raised, or was not made
NoStatistics ==
    [nodes |-> 0, edges |-> 0, density |-> Zero, average_degree |-> Zero,
     diameter |-> None, average_path_length |-> None,
     largest_component_nodes |-> None, number_of_components |-> None,
     diameter_largest |-> None, average_path_length_largest |-> None,
     average_clustering |-> Zero]

----------------------------------------------------------------------------
(* NetworkAnalyzer: the object and its calls *)

\* no analyzer has been made
NoAnalyzer ==
    [made |-> FALSE, network |-> None, converges |-> TRUE,
     hub_genes |-> <<>>, centrality_metrics |-> NoMetrics]

\* NetworkAnalyzer(config, network).  converges: whether the power iteration
\* of nx.eigenvector_centrality on the network converges within max_iter
NewAnalyzer(net, converges) ==
    [made |-> TRUE, network |-> net, converges |-> converges,
     hub_genes |-> <<>>, centrality_metrics |-> NoMetrics]

\* the record of a call of a NetworkAnalyzer method: its arguments, how it
\* ended, and the list, the table or the dict it returned
AnalysisCall(op, top_n, method, error, hubs, table, stats) ==
    [op |-> op, top_n |-> top_n, method |-> method,
     outcome |-> IF error = "" THEN "returned" ELSE "raised",
     error |-> error, hubs |-> hubs, table |-> table, stats |-> stats]

\* no call yet
NoAnalysis == AnalysisCall("none", None, "", "", <<>>, <<>>, NoStatistics)

\* calculate_all_centralities on an analyzer: the analyzer after the call
\* and the record of the call.  With no network it raises ValueError; on the
\* graph with no node nx.eigenvector_centrality raises
\* NetworkXPointlessConcept, which is not caught, after the other three
\* metrics were stored.
CalculateAll(a) ==
    LET op == "calculate_all_centralities"
        raised(e) == AnalysisCall(op, None, "", e, <<>>, <<>>, NoStatistics)
    IN  IF a.network = None
        THEN [analyzer |-> a, call |-> raised("ValueError")]
        ELSE LET g == a.network[1]
             IN  IF g.nodes = <<>>
                 THEN [analyzer |-> [a EXCEPT !.centrality_metrics =
                                        MetricsBeforeEigenvector(@, g)],
                       call |-> raised("NetworkXPointlessConcept")]
                 ELSE LET metrics == MetricsAfter(a.centrality_metrics, g, a.converges)
                      IN  [analyzer |-> [a EXCEPT !.centrality_metrics = metrics],
                           call |-> AnalysisCall(op, None, "", "", <<>>,
                                                 CentralityTable(g, metrics),
                                                 NoStatistics)]

\* identify_hub_genes(top_n, method) from the return of its call of
\* calculate_all_centralities on: top_n is None or Some(n).  A method that
\* is none of Methods makes sort_values raise KeyError for the column it
\* names, before hub_genes is assigned.
RankHubGenes(all, top_n, method) ==
    LET op == "identify_hub_genes"
        raised(e) == AnalysisCall(op, top_n, method, e, <<>>, <<>>, NoStatistics)
    IN  IF all.call.outcome = "raised"
        THEN [analyzer |-> all.analyzer, call |-> raised(all.call.error)]
        ELSE IF method \notin Methods
        THEN [analyzer |-> all.analyzer, call |-> raised("KeyError")]
        ELSE LET hubs == HubGenes(all.call.table, Get(top_n, TopNDefault), method)
             IN  [analyzer |-> [all.analyzer EXCEPT !.hub_genes = hubs],
                  call |-> AnalysisCall(op, top_n, method, "", hubs, <<>>,
                                        NoStatistics)]

\* identify_hub_genes(top_n, method) on an analyzer: the analyzer after the
\* call and the record of the call
IdentifyHubGenes(a, top_n, method) == RankHubGenes(CalculateAll(a), top_n, method)

\* get_network_statistics: with no network it raises ValueError; on the
\* graph with no node nx.is_connected raises NetworkXPointlessConcept
GetNetworkStatistics(a) ==
    LET op == "get_network_statistics"
        raised(e) == AnalysisCall(op, None, "", e, <<>>, <<>>, NoStatistics)
    IN  IF a.network = None THEN raised("ValueError")
        ELSE IF a.network[1].nodes = <<>> THEN raised("NetworkXPointlessConcept")
        ELSE AnalysisCall(op, None, "", "", <<>>, <<>>,
                          NetworkStatistics(a.network[1]))

----------------------------------------------------------------------------
(* networkx: louvain_communities *)

\* the orders random.shuffle can leave the elements of S in
RECURSIVE Shuffles(_)
Shuffles(S) ==
    IF S = {} THEN {<<>>}
    ELSE UNION {{<<x>> \o rest : rest \in Shuffles(S \ {x})} : x \in S}

\* the sets of a list that are not empty: list(filter(len, partition))
NonEmpty(sets) == SelectSeq(sets, LAMBDA c : c # {})

\* the graph one level works on: its nodes are 1..k, node i stands for the
\* genes nodes[i], w[<<i, j>>] is the weight of the edge between i and j
\* (of the self-loop when i = j) and adj holds the edges there are
LevelGraph(k, nodes, w, adj) == [k |-> k, nodes |-> nodes, w |-> w, adj |-> adj]

\* the graph of the first level: the nodes and the weighted edges of G
FirstLevel(g) ==
    LET k == Len(g.nodes)
        end(i, j) == {g.nodes[i], g.nodes[j]}
    IN  LevelGraph(k,
                   <<>> \o [i \in 1..k |-> {g.nodes[i]}],
                   [p \in (1..k) \X (1..k) |->
                       IF end(p[1], p[2]) \in Edges(g)
                       THEN g.edges[end(p[1], p[2])] ELSE 0],
                   {e \in SUBSET (1..k) :
                       \E i, j \in 1..k : e = {i, j} /\ end(i, j) \in Edges(g)})

\* G.degree(weight="weight") of a node: a self-loop counts twice
LevelDegree(lg, i) ==
    SumInt([j \in 1..lg.k |-> lg.w[<<i, j>>]], 1..lg.k) + lg.w[<<i, i>>]

\* the weight of the edges inside a set of nodes, self-loops included
WeightInside(lg, c) ==
    SumInt([p \in c \X c |-> IF p[1] <= p[2] THEN lg.w[p] ELSE 0], c \X c)

\* G.size(weight="weight"): the total weight of the edges
LevelSize(lg) == WeightInside(lg, 1..lg.k)

\* modularity(G, communities) times 4 m^2, m the total weight: the sum over
\* the communities of L_c / m - (degree sum / 2m)^2
Modularity4(lg, communities) ==
    LET m == LevelSize(lg)
        deg(c) == SumInt([i \in c |-> LevelDegree(lg, i)], c)
        part == [n \in 1..Len(communities) |->
                    4 * m * WeightInside(lg, communities[n])
                    - deg(communities[n]) * deg(communities[n])]
    IN  SumInt(part, 1..Len(communities))

\* the state of _one_level: the community of each node, the genes and the
\* nodes of each community, and whether a node has moved
LevelState(node2com, partition, inner, improvement) ==
    [node2com |-> node2com, partition |-> partition, inner |-> inner,
     improvement |-> improvement]

\* the state _one_level starts from: every node is a community of its own
LevelStart(lg, partition) ==
    LevelState([i \in 1..lg.k |-> i], partition,
               <<>> \o [i \in 1..lg.k |-> {i}], FALSE)

\* the neighbours of u but u
LevelNeighbors(lg, u) == {v \in 1..lg.k : v # u /\ {u, v} \in lg.adj}

\* the gain of putting u into community c, times 2 m^2 and against leaving
\* u where it is: 2m (w(u, c) - w(u, own)) + degree(u) (Stot[own] - Stot[c]),
\* Stot taken without u
MoveGain(lg, st, u, c) ==
    LET own == st.node2com[u]
        wt(d) == SumInt([v \in LevelNeighbors(lg, u) |->
                            IF st.node2com[v] = d THEN lg.w[<<u, v>>] ELSE 0],
                        LevelNeighbors(lg, u))
        stot(d) == SumInt([i \in (1..lg.k) \ {u} |->
                              IF st.node2com[i] = d THEN LevelDegree(lg, i) ELSE 0],
                          (1..lg.k) \ {u})
    IN  2 * LevelSize(lg) * (wt(c) - wt(own))
        + LevelDegree(lg, u) * (stot(own) - stot(c))

\* the communities u can move to: those of its neighbours whose gain is
\* positive and the largest.  Among communities of equal gain the code takes
\* the one it meets first in the adjacency of u, an order the graphs of the
\* model do not keep: any of them may be taken.
BestCommunities(lg, st, u) ==
    LET near == {st.node2com[v] : v \in LevelNeighbors(lg, u)} \ {st.node2com[u]}
        gain == [c \in near |-> MoveGain(lg, st, u, c)]
    IN  {c \in near : gain[c] > 0 /\ \A d \in near : gain[d] <= gain[c]}

\* u is taken out of its community and put into c
MoveNode(lg, st, u, c) ==
    LET own == st.node2com[u]
    IN  LevelState([st.node2com EXCEPT ![u] = c],
                   [st.partition EXCEPT ![own] = @ \ lg.nodes[u],
                                        ![c] = @ \cup lg.nodes[u]],
                   [st.inner EXCEPT ![own] = @ \ {u}, ![c] = @ \cup {u}],
                   TRUE)

\* the loop of _one_level: the nodes are visited in the shuffled order, again
\* and again until a round moves no node; rest are the nodes the round has
\* yet to visit, moves the nodes it has moved.  The states it can end in.
RECURSIVE LocalMoves(_, _, _, _, _)
LocalMoves(lg, st, order, rest, moves) ==
    IF rest = <<>>
    THEN IF moves = 0 THEN {st} ELSE LocalMoves(lg, st, order, order, 0)
    ELSE LET u == Head(rest)
             best == BestCommunities(lg, st, u)
         IN  IF best = {}
             THEN LocalMoves(lg, st, order, Tail(rest), moves)
             ELSE UNION {LocalMoves(lg, MoveNode(lg, st, u, c), order,
                                    Tail(rest), moves + 1) : c \in best}

\* _one_level(G, m, partition, seed): what it can return, over the orders the
\* shuffle can give
OneLevel(lg, partition) ==
    LET ends == UNION {LocalMoves(lg, LevelStart(lg, partition), order, order, 0) :
                          order \in Shuffles(1..lg.k)}
    IN  {[partition |-> NonEmpty(st.partition), inner |-> NonEmpty(st.inner),
          improvement |-> st.improvement] : st \in ends}

\* _gen_graph(G, partition): a node for each community, the weights of the
\* edges between two communities added up, those inside one made a self-loop
GenGraph(lg, inner) ==
    LET k == Len(inner)
    IN  LevelGraph(k,
                   <<>> \o [a \in 1..k |-> UNION {lg.nodes[i] : i \in inner[a]}],
                   [p \in (1..k) \X (1..k) |->
                       IF p[1] = p[2] THEN WeightInside(lg, inner[p[1]])
                       ELSE SumInt([q \in inner[p[1]] \X inner[p[2]] |-> lg.w[q]],
                                   inner[p[1]] \X inner[p[2]])],
                   {e \in SUBSET (1..k) :
                       \E a, b \in 1..k :
                           /\ e = {a, b}
                           /\ \E i \in inner[a], j \in inner[b] : {i, j} \in lg.adj})

\* 1 / threshold of louvain_communities, threshold=0.0000001
ThresholdInverse == 10000000

\* new_mod - mod <= threshold, both modularities times 4 m^2
WithinThreshold(lg, mod, new) ==
    new - mod <= (4 * LevelSize(lg) * LevelSize(lg)) \div ThresholdInverse

\* the loop of louvain_partitions from a level on: one is what _one_level
\* returned for the graph lg, mod the modularity before it.  The partitions
\* that can be the last one yielded.
RECURSIVE LastYielded(_, _, _)
LastYielded(lg, one, mod) ==
    LET new == Modularity4(lg, one.inner)
        next == GenGraph(lg, one.inner)
    IN  IF WithinThreshold(lg, mod, new) THEN {one.partition}
        ELSE UNION {IF after.improvement THEN LastYielded(next, after, new)
                    ELSE {one.partition} : after \in OneLevel(next, one.partition)}

\* the partition of the nodes into single nodes, in node order
Singletons(g) == <<>> \o [i \in 1..Len(g.nodes) |-> {g.nodes[i]}]

\* nx.community.louvain_communities(G) with the seed left out: what it can
\* do.  A graph with no edge gives its single nodes.  On a graph with edges
\* whose weights are all 0, modularity divides by the degree sum 0 and
\* raises ZeroDivisionError.
LouvainCommunities(g) ==
    IF Edges(g) = {} THEN {[error |-> "", communities |-> Singletons(g)]}
    ELSE LET lg == FirstLevel(g)
             mod == Modularity4(lg, <<>> \o [i \in 1..lg.k |-> {i}])
         IN  IF LevelSize(lg) = 0
             THEN {[error |-> "ZeroDivisionError", communities |-> <<>>]}
             ELSE {[error |-> "", communities |-> c] :
                      c \in UNION {LastYielded(lg, one, mod) :
                                      one \in OneLevel(lg, Singletons(g))}}

----------------------------------------------------------------------------
(* NetworkAnalyzer: perform_clustering *)

\* the record of a perform_clustering call: the graph it was made on, how it
\* ended, the exception it caught, and the dict it returned, clusters[i]
\* being the genes of "cluster_i"
ClusteringCall(graph, error, caught, clusters) ==
    [called |-> TRUE, graph |-> graph,
     outcome |-> IF error = "" THEN "returned" ELSE "raised",
     error |-> error, caught |-> caught, clusters |-> clusters]

\* no call yet
NoClustering ==
    [called |-> FALSE, graph |-> None, outcome |-> "none", error |-> "",
     caught |-> "", clusters |-> <<>>]

\* perform_clustering on an analyzer: the records the call can leave.  With
\* no network it raises ValueError; an exception of the community detection
\* is caught and {} returned.
PerformClustering(a) ==
    IF a.network = None THEN {ClusteringCall(None, "ValueError", "", <<>>)}
    ELSE {ClusteringCall(a.network, "", done.error, done.communities) :
             done \in LouvainCommunities(a.network[1])}

----------------------------------------------------------------------------
(* NetworkAnalyzer: save_analysis *)

\* the columns of the hub-gene records: those of the centrality table and,
\* for a ranking by the combined score, the normalised columns and the score
HubColumns(record) ==
    <<"gene", "degree", "degree_centrality", "betweenness_centrality",
      "closeness_centrality", "eigenvector_centrality">>
    \o (IF record.combined_score = None THEN <<>>
        ELSE <<"degree_centrality_norm", "betweenness_centrality_norm",
               "closeness_centrality_norm", "eigenvector_centrality_norm",
               "combined_score">>)

\* the line of hub_genes.csv for a record: its cells in the order of the
\* columns
HubLine(record) ==
    <<record.gene, record.degree, record.degree_centrality,
      record.betweenness_centrality, record.closeness_centrality,
      record.eigenvector_centrality>>
    \o (IF record.combined_score = None THEN <<>>
        ELSE <<record.norm[1].degree, record.norm[1].betweenness,
               record.norm[1].closeness, record.norm[1].eigenvector,
               record.combined_score[1]>>)

\* hub_genes.csv for a list of records: the header and a line per record,
\* in the order of the list
HubCsv(records) ==
    [header |-> IF records = <<>> THEN <<>> ELSE HubColumns(records[1]),
     lines |-> <<>> \o [i \in 1..Len(records) |-> HubLine(records[i])]]

\* the records of a ranking made anew by the default call
HubRecordsRanked(a) == IdentifyHubGenes(a, None, "degree").call.hubs

\* the records save_analysis writes to hub_genes.csv: self.hub_genes
HubRecordsSaved(a) == a.hub_genes

\* the files of save_analysis; a file that is not there is None
AnalysisFiles(centralities, hubs, statistics, clusters) ==
    [centralities |-> centralities, hub_genes |-> hubs,
     statistics |-> statistics, clusters |-> clusters]

\* no file yet
NoAnalysisFiles == AnalysisFiles(None, None, None, None)

\* save_analysis on an analyzer, files being the files there are: what the
\* call can leave.  The table of calculate_all_centralities is written
\* first; hub_genes.csv is written when self.hub_genes is not empty; then
\* the statistics; then the clusters when the dict is not empty.  A call of
\* calculate_all_centralities that raises ends the call before any file.
SaveAnalysisOn(a, files, cluster) ==
    LET op == "save_analysis"
        all == CalculateAll(a)
        stats == GetNetworkStatistics(all.analyzer)
        raised(e) == AnalysisCall(op, None, "", e, <<>>, <<>>, NoStatistics)
        table == Some(all.call.table)
        hubs == IF HubRecordsSaved(all.analyzer) # <<>>
                THEN Some(HubCsv(HubRecordsSaved(all.analyzer)))
                ELSE files.hub_genes
    IN  IF all.call.outcome = "raised"
        THEN {[analyzer |-> all.analyzer, call |-> raised(all.call.error),
               files |-> files, clustering |-> cluster]}
        ELSE IF stats.outcome = "raised"
        THEN {[analyzer |-> all.analyzer, call |-> raised(stats.error),
               files |-> AnalysisFiles(table, hubs, files.statistics, files.clusters),
               clustering |-> cluster]}
        ELSE {[analyzer |-> all.analyzer,
               call |-> AnalysisCall(op, None, "", "", <<>>, <<>>, NoStatistics),
               files |-> AnalysisFiles(table, hubs, Some(stats.stats),
                                       IF done.clusters # <<>>
                                       THEN Some(done.clusters)
                                       ELSE files.clusters),
               clustering |-> done] : done \in PerformClustering(all.analyzer)}

----------------------------------------------------------------------------
(* Config._deep_merge *)

\* Python values of a configuration: a scalar, or a dict, which is an object
\* with an identity.  store is the sequence of the dict objects there are,
\* store[id] the entries of the object id: a function from keys to values.
Scalar(v) == [kind |-> "scalar", v |-> v]

DictRef(id) == [kind |-> "dict", v |-> id]

\* {}
EmptyDict == [k \in {} |-> Scalar(0)]

\* d[k] = v
SetItem(d, k, v) == [x \in DOMAIN d \cup {k} |-> IF x = k THEN v ELSE d[x]]

RECURSIVE DeepCopy(_, _)
RECURSIVE CopyItems(_, _, _, _)
RECURSIVE DeepMerge(_, _, _)
RECURSIVE MergeItems(_, _, _, _)

\* the value handed on as it is, no object being made
SameObject(store, value) == [store |-> store, value |-> value]

\* deepcopy(value): a scalar is itself; for a dict a new object is made and
\* given a copy of each entry.  The store after it and the copy.
DeepCopy(store, value) ==
    IF value.kind = "scalar" THEN [store |-> store, value |-> value]
    ELSE LET id == Len(store) + 1
         IN  [store |-> CopyItems(Append(store, EmptyDict), id, store[value.v],
                                  DOMAIN store[value.v]),
              value |-> DictRef(id)]

\* the entries of source under keys copied into the object id
CopyItems(store, id, source, keys) ==
    IF keys = {} THEN store
    ELSE LET k == CHOOSE x \in keys : TRUE
             copy == DeepCopy(store, source[k])
         IN  CopyItems([copy.store EXCEPT ![id] = SetItem(@, k, copy.value)],
                       id, source, keys \ {k})

\* _deep_merge(base, override), base and override the identities of two
\* dicts: the store after the call and the identity of the dict returned
DeepMerge(store, base, override) ==
    LET copy == DeepCopy(store, DictRef(base))
        result == copy.value.v
    IN  [store |-> MergeItems(copy.store, result, override,
                              DOMAIN copy.store[override]),
         result |-> result]

\* the loop over override.items(), keys being the keys yet to come
MergeItems(store, result, override, keys) ==
    IF keys = {} THEN store
    ELSE LET key == CHOOSE x \in keys : TRUE
             value == store[override][key]
         IN  IF /\ key \in DOMAIN store[result]
                /\ store[result][key].kind = "dict"
                /\ value.kind = "dict"
             THEN LET merged == DeepMerge(store, store[result][key].v, value.v)
                  IN  MergeItems([merged.store EXCEPT
                                     ![result] = SetItem(@, key, DictRef(merged.result))],
                                 result, override, keys \ {key})
             ELSE LET copy == DeepCopy(store, value)
                  IN  MergeItems([copy.store EXCEPT
                                     ![result] = SetItem(@, key, copy.value)],
                                 result, override, keys \ {key})

\* the record of a _deep_merge call: the dict objects before it, the two
\* dicts it was given, the dict objects after it and the dict it returned
MergeCall(before, base, override, done) ==
    [called |-> TRUE, before |-> before, base |-> base, override |-> override,
     store |-> done.store, result |-> done.result]

\* two dicts a call can be given, no call made yet
MergeInput(store, base, override) ==
    [called |-> FALSE, before |-> store, base |-> base, override |-> override,
     store |-> store, result |-> 0]

\* no dict and no call
NoMerge == MergeInput(<<>>, 0, 0)

----------------------------------------------------------------------------
(* State *)

\* NetworkBuilder.__init__, with the files the earlier pipeline stages left
Constructed(drugs, diseases) ==
    /\ drug_source = drugs
    /\ disease_source = diseases
    /\ drug_targets = <<>>
    /\ disease_genes = <<>>
    /\ common_targets = <<>>
    /\ venn_data = None
    /\ network = None
    /\ exported = None
    /\ last_build = NoCall
    /\ calls = 0
    /\ analyzer = NoAnalyzer
    /\ last_call = NoAnalysis
    /\ graphs = <<>>
    /\ network_id = 0
    /\ builds = <<>>
    /\ saved_at = 0
    /\ clustering = NoClustering
    /\ analysis_files = NoAnalysisFiles
    /\ config = NoMerge

\* a run of the network stage on the files of one study, or on none
StudySources ==
    {<<[kind |-> "txt", rows |-> <<Row(<<"a">>), Row(<<"b", " ">>)>>],
       [kind |-> "csv", rows |-> <<Row(<<"B">>), Row(<<"A">>)>>]>>,
     <<NoSource, NoSource>>}

Init == \E s \in StudySources : Constructed(s[1], s[2])

\* a builder whose callers pass the gene lists themselves
InitAnalyze == Constructed(NoSource, NoSource)

\* a builder on any pair of gene-list files within the bounds
InitTargets == \E drugs \in Sources, diseases \in Sources : Constructed(drugs, diseases)

----------------------------------------------------------------------------
(* Operations *)

\* the lists find_common_targets works on: a list that is empty is loaded
DrugsForFind == IF drug_targets = <<>> THEN Loaded(drug_source, drug_targets)
                ELSE drug_targets

DiseasesForFind == IF disease_genes = <<>> THEN Loaded(disease_source, disease_genes)
                   ELSE disease_genes

LoadDrugTargets ==
    /\ drug_targets' = Loaded(drug_source, drug_targets)
    /\ UNCHANGED <<drug_source, disease_source, disease_genes, common_targets,
                   venn_data, network, exported, last_build, calls,
                   analyzer, last_call,
                   graphs, network_id, builds, saved_at, aside>>

LoadDiseaseGenes ==
    /\ disease_genes' = Loaded(disease_source, disease_genes)
    /\ UNCHANGED <<drug_source, disease_source, drug_targets, common_targets,
                   venn_data, network, exported, last_build, calls,
                   analyzer, last_call,
                   graphs, network_id, builds, saved_at, aside>>

FindCommonTargets ==
    \E common \in ListsOf(CommonSet(DrugsForFind, DiseasesForFind)) :
        /\ drug_targets' = DrugsForFind
        /\ disease_genes' = DiseasesForFind
        /\ common_targets' = common
        /\ venn_data' = Some(VennData(DrugsForFind, DiseasesForFind, common))
        /\ UNCHANGED <<drug_source, disease_source, network, exported,
                       last_build, calls, analyzer, last_call,
                   graphs, network_id, builds, saved_at, aside>>

\* build_ppi_network(genes): genesArg is None or Some(list); reply is the
\* answer the service gives if it is asked
BuildPpiNetwork(genesArg, reply) ==
    LET find == genesArg = None /\ common_targets = <<>>
        drugs == IF find THEN DrugsForFind ELSE drug_targets
        diseases == IF find THEN DiseasesForFind ELSE disease_genes
    IN  \E common \in (IF find THEN ListsOf(CommonSet(drugs, diseases))
                       ELSE {common_targets}) :
            LET genes == IF genesArg = None THEN common ELSE genesArg[1]
            IN  /\ drug_targets' = drugs
                /\ disease_genes' = diseases
                /\ common_targets' = common
                /\ venn_data' = IF find THEN Some(VennData(drugs, diseases, common))
                                ELSE venn_data
                /\ network' = NetworkAfterBuild(network, genes, reply)
                /\ last_build' = BuildCall(genes, reply,
                                           ReturnedGraph(network, genes, reply))
                /\ calls' = calls + 1
                /\ graphs' = GraphsAfterBuild(graphs, network_id, genes, reply)
                /\ network_id' = NetworkIdAfterBuild(graphs, network_id, genes)
                /\ builds' = Append(builds,
                                    BuildCall(genes, reply,
                                              ReturnedGraph(network, genes, reply)))
                /\ UNCHANGED <<drug_source, disease_source, exported, saved_at,
                               analyzer, last_call, aside>>

\* the gene lists a caller passes
GeneLists == SeqsUpTo(GeneNames, MaxGenes)

\* genes=None, or a list
GeneArgs == {None} \cup {Some(g) : g \in GeneLists}

\* the first build_ppi_network call on a builder, on any gene list and with
\* any answer of the service
Build ==
    /\ ~last_build.called
    /\ \E genesArg \in GeneArgs, reply \in Replies : BuildPpiNetwork(genesArg, reply)

\* the arguments and the answers of repeated calls
RebuildArgs == {None, Some(<<>>), Some(<<<<"A">>>>), Some(<<<<"A">>, <<"B">>>>)}

RebuildReplies ==
    LET ab == Interaction(Some(<<"A">>), Some(StringId), Some(<<"B">>), Some(StringId), Some(900))
        ba == Interaction(Some(<<"B">>), Some(StringId), Some(<<"A">>), Some(StringId), Some(300))
        aB == Interaction(Some(<<"a">>), Some(StringId), Some(<<"B">>), Some(StringId), Some(900))
    IN  {Reply("exception", <<>>), Reply("ok", <<>>), Reply("ok", <<ab>>),
         Reply("ok", <<ab, ba>>), Reply("ok", <<aB>>)}

\* build_ppi_network called again and again on one builder
Rebuild ==
    /\ calls < MaxRebuilds
    /\ \E genesArg \in RebuildArgs, reply \in RebuildReplies :
           BuildPpiNetwork(genesArg, reply)

\* a save_network that wrote the files of the graph the last call returned
SaveNetworkOfReturned ==
    /\ exported' = IF last_build.called THEN Some(Export(last_build.returned))
                   ELSE exported
    /\ saved_at' = calls
    /\ UNCHANGED <<drug_source, disease_source, drug_targets, disease_genes,
                   common_targets, venn_data, network, last_build, calls,
                   analyzer, last_call,
                   graphs, network_id, builds, aside>>

\* builder.save_network(): the files of self.network, nothing when it is None
SaveNetwork ==
    /\ exported' = IF network = None THEN exported ELSE Some(Export(network[1]))
    /\ saved_at' = calls
    /\ UNCHANGED <<drug_source, disease_source, drug_targets, disease_genes,
                   common_targets, venn_data, network, last_build, calls,
                   analyzer, last_call,
                   graphs, network_id, builds, aside>>

\* largest top_n a caller passes
MaxTopN == 1

\* top_n=None, or a number
TopNs == {None} \cup {Some(n) : n \in -1..MaxTopN}

\* the method strings a caller passes: those the code names and another
MethodArgs == Methods \cup {"pagerank"}

\* gene symbols of the networks that are analysed
GeneA == <<"A">>

GeneB == <<"B">>

GeneC == <<"C">>

\* the builds that are analysed, each a gene list and the answer of the
\* service: no gene; one, two and three genes with no record; a record of a
\* gene with itself; one pair and a gene apart; a chain of two pairs; the
\* three pairs of three genes
AnalysisBuilds ==
    LET pair(a, b, s) == Interaction(Some(a), Some(StringId), Some(b), Some(StringId), Some(s))
    IN  {<<Some(<<>>), Reply("ok", <<>>)>>,
         <<Some(<<GeneA>>), Reply("ok", <<>>)>>,
         <<Some(<<GeneB, GeneA>>), Reply("ok", <<>>)>>,
         <<Some(<<GeneA, GeneB, GeneC>>), Reply("ok", <<>>)>>,
         <<Some(<<GeneB, GeneA>>), Reply("ok", <<pair(GeneA, GeneA, 900)>>)>>,
         <<Some(<<GeneA, GeneB, GeneC>>), Reply("ok", <<pair(GeneB, GeneA, 900)>>)>>,
         <<Some(<<GeneA, GeneB, GeneC>>),
           Reply("ok", <<pair(GeneC, GeneB, 900), pair(GeneB, GeneA, 850)>>)>>,
         <<Some(<<GeneA, GeneB, GeneC>>),
           Reply("ok", <<pair(GeneA, GeneB, 900), pair(GeneB, GeneC, 850),
                         pair(GeneC, GeneA, 700)>>)>>}

\* the build of the network that is analysed
BuildForAnalysis ==
    /\ ~last_build.called
    /\ \E b \in AnalysisBuilds : BuildPpiNetwork(b[1], b[2])

builder == <<drug_source, disease_source, drug_targets, disease_genes,
             common_targets, venn_data, network, exported, last_build, calls,
             graphs, network_id, builds, saved_at>>

\* analyzer = NetworkAnalyzer(config, network), network the graph the build
\* returned
Analyze ==
    /\ last_build.called
    /\ ~analyzer.made
    /\ \E converges \in BOOLEAN :
           analyzer' = NewAnalyzer(Some(last_build.returned), converges)
    /\ UNCHANGED <<builder, last_call, aside>>

\* analyzer.identify_hub_genes(top_n, method)
Identify ==
    /\ analyzer.made
    /\ LET all == CalculateAll(analyzer)
       IN  \E top_n \in TopNs, method \in MethodArgs :
               LET done == RankHubGenes(all, top_n, method)
               IN  /\ analyzer' = done.analyzer
                   /\ last_call' = done.call
    /\ UNCHANGED <<builder, aside>>

\* analyzer.calculate_all_centralities()
Calculate ==
    /\ analyzer.made
    /\ LET done == CalculateAll(analyzer)
       IN  /\ analyzer' = done.analyzer
           /\ last_call' = done.call
    /\ UNCHANGED <<builder, aside>>

\* analyzer.get_network_statistics()
Statistics ==
    /\ analyzer.made
    /\ last_call' = GetNetworkStatistics(analyzer)
    /\ UNCHANGED <<builder, analyzer, aside>>

\* the GraphML file of save_network read back: the nodes in the order of the
\* file, then the edges
ReadGraphml(file) ==
    [AddIsolated(EmptyGraph, file.nodes) EXCEPT !.edges = file.edges]

\* analyzer.load_network(), the file network.graphml being there
LoadNetwork ==
    /\ analyzer.made
    /\ exported # None
    /\ \E converges \in BOOLEAN :
           analyzer' = [analyzer EXCEPT
                           !.network = Some(ReadGraphml(exported[1].graphml)),
                           !.converges = converges]
    /\ UNCHANGED <<builder, last_call, aside>>

GeneD == <<"D">>

\* the builds that are clustered: those that are analysed; two genes with a
\* record that has no score; three genes in a chain, one record with no
\* score; two pairs; four genes in a chain; four genes in a ring
ClusteringBuilds ==
    LET pair(a, b, s) == Interaction(Some(a), Some(StringId), Some(b), Some(StringId), s)
    IN  AnalysisBuilds \cup
        {<<Some(<<GeneA, GeneB>>), Reply("ok", <<pair(GeneA, GeneB, None)>>)>>,
         <<Some(<<GeneA, GeneB, GeneC>>),
           Reply("ok", <<pair(GeneA, GeneB, Some(900)), pair(GeneB, GeneC, None)>>)>>,
         <<Some(<<GeneA, GeneB, GeneC, GeneD>>),
           Reply("ok", <<pair(GeneA, GeneB, Some(900)), pair(GeneC, GeneD, Some(900))>>)>>,
         <<Some(<<GeneA, GeneB, GeneC, GeneD>>),
           Reply("ok", <<pair(GeneA, GeneB, Some(900)), pair(GeneB, GeneC, Some(900)),
                         pair(GeneC, GeneD, Some(900))>>)>>,
         <<Some(<<GeneA, GeneB, GeneC, GeneD>>),
           Reply("ok", <<pair(GeneA, GeneB, Some(900)), pair(GeneB, GeneC, Some(900)),
                         pair(GeneC, GeneD, Some(900)), pair(GeneD, GeneA, Some(900))>>)>>}

\* the build of the network that is clustered
BuildForClustering ==
    /\ ~last_build.called
    /\ \E b \in ClusteringBuilds : BuildPpiNetwork(b[1], b[2])

\* analyzer.perform_clustering(): the call has no seed to pass on, the order
\* of the shuffle is that of the random state of the process
Cluster ==
    /\ analyzer.made
    /\ \E done \in PerformClustering(analyzer) : clustering' = done
    /\ UNCHANGED <<builder, analyzer, last_call, analysis_files, config>>

\* analyzer.save_analysis()
SaveAnalysis ==
    /\ analyzer.made
    /\ \E done \in SaveAnalysisOn(analyzer, analysis_files, clustering) :
           /\ analyzer' = done.analyzer
           /\ last_call' = done.call
           /\ analysis_files' = done.files
           /\ clustering' = done.clustering
    /\ UNCHANGED <<builder, config>>

\* the builds of a builder whose networks are ranked and saved: two genes
\* with a record, one gene with none
SavedBuilds ==
    LET pair(a, b, s) == Interaction(Some(a), Some(StringId), Some(b), Some(StringId), Some(s))
    IN  {<<Some(<<GeneA, GeneB>>), Reply("ok", <<pair(GeneB, GeneA, 900)>>)>>,
         <<Some(<<GeneA>>), Reply("ok", <<>>)>>}

\* build_ppi_network called again and again on that builder
BuildForSaving ==
    /\ calls < MaxRebuilds
    /\ \E b \in SavedBuilds : BuildPpiNetwork(b[1], b[2])

\* analyzer.identify_hub_genes(top_n, method) before the analysis is saved:
\* the default and a top_n of 1, a method the code names and another
IdentifyForSaving ==
    /\ analyzer.made
    /\ LET all == CalculateAll(analyzer)
       IN  \E top_n \in {None, Some(1)}, method \in {"degree", "pagerank"} :
               LET done == RankHubGenes(all, top_n, method)
               IN  /\ analyzer' = done.analyzer
                   /\ last_call' = done.call
    /\ UNCHANGED <<builder, aside>>

\* the keys and the scalars of the configurations that are merged
ConfigKeys == {"analysis", "output"}

ConfigScalars == {1, 2}

\* trees of values: a scalar, or a dict of trees
ScalarTree(v) == [kind |-> "scalar", v |-> v, items |-> <<>>]

DictTree(items) == [kind |-> "dict", v |-> 0, items |-> items]

\* the dicts whose values are among the trees of a set
DictsOver(trees) ==
    {DictTree(items) : items \in UNION {[keys -> trees] : keys \in SUBSET ConfigKeys}}

\* the configurations: dicts of scalars and of dicts of scalars
ConfigTrees ==
    DictsOver({ScalarTree(v) : v \in ConfigScalars}
              \cup DictsOver({ScalarTree(v) : v \in ConfigScalars}))

RECURSIVE SafeLoad(_, _)
RECURSIVE SafeLoadItems(_, _, _, _)

\* yaml.safe_load of a tree: the store with the objects of the tree made,
\* and the value
SafeLoad(store, tree) ==
    IF tree.kind = "scalar" THEN [store |-> store, value |-> Scalar(tree.v)]
    ELSE LET id == Len(store) + 1
         IN  [store |-> SafeLoadItems(Append(store, EmptyDict), id, tree.items,
                                  DOMAIN tree.items),
              value |-> DictRef(id)]

SafeLoadItems(store, id, items, keys) ==
    IF keys = {} THEN store
    ELSE LET k == CHOOSE x \in keys : TRUE
             made == SafeLoad(store, items[k])
         IN  SafeLoadItems([made.store EXCEPT ![id] = SetItem(@, k, made.value)],
                       id, items, keys \ {k})

\* the default configuration and the project configuration as loaded
LoadedConfigs(base, override) ==
    LET first == SafeLoad(<<>>, base)
        second == SafeLoad(first.store, override)
    IN  MergeInput(second.store, first.value.v, second.value.v)

\* self._deep_merge(self._config, project_config)
MergeConfig ==
    /\ ~config.called
    /\ config' = MergeCall(config.store, config.base, config.override,
                           DeepMerge(config.store, config.base, config.override))
    /\ UNCHANGED <<builder, analyzer, last_call, clustering, analysis_files>>

\* the network stage run once: one build, which finds the common targets
\* when it is given no gene list, and the save
Next ==
    \/ Build
    \/ SaveNetwork

Spec == Init /\ [][Next]_vars

\* loading the gene lists and intersecting them
NextTargets ==
    \/ LoadDrugTargets
    \/ LoadDiseaseGenes
    \/ FindCommonTargets

SpecTargets == InitTargets /\ [][NextTargets]_vars

\* a builder that is used for several builds
NextRebuild ==
    \/ Rebuild
    \/ SaveNetwork

SpecRebuild == Init /\ [][NextRebuild]_vars

\* a network is built and analysed
NextAnalyze ==
    \/ BuildForAnalysis
    \/ Analyze
    \/ Identify
    \/ Calculate
    \/ Statistics

SpecAnalyze == InitAnalyze /\ [][NextAnalyze]_vars

\* an analyzer that loads the networks a builder saves
NextReload ==
    \/ Rebuild
    \/ SaveNetwork
    \/ Analyze
    \/ LoadNetwork
    \/ Calculate

SpecReload == InitAnalyze /\ [][NextReload]_vars

\* a network is built, handed to an analyzer, clustered and saved
NextCluster ==
    \/ BuildForClustering
    \/ Analyze
    \/ Cluster
    \/ SaveAnalysis

SpecCluster == InitAnalyze /\ [][NextCluster]_vars

\* an analyzer that ranks, loads the networks a builder saves, and saves
NextSave ==
    \/ BuildForSaving
    \/ SaveNetwork
    \/ Analyze
    \/ LoadNetwork
    \/ IdentifyForSaving
    \/ SaveAnalysis

SpecSave == InitAnalyze /\ [][NextSave]_vars

\* the configurations of a run: any default and any project configuration
InitMerge ==
    /\ drug_source = NoSource
    /\ disease_source = NoSource
    /\ drug_targets = <<>>
    /\ disease_genes = <<>>
    /\ common_targets = <<>>
    /\ venn_data = None
    /\ network = None
    /\ exported = None
    /\ last_build = NoCall
    /\ calls = 0
    /\ analyzer = NoAnalyzer
    /\ last_call = NoAnalysis
    /\ graphs = <<>>
    /\ network_id = 0
    /\ builds = <<>>
    /\ saved_at = 0
    /\ clustering = NoClustering
    /\ analysis_files = NoAnalysisFiles
    /\ \E base \in ConfigTrees, override \in ConfigTrees :
           config = LoadedConfigs(base, override)

\* the project configuration merged into the default one
NextMerge == MergeConfig

SpecMerge == InitMerge /\ [][NextMerge]_vars

----------------------------------------------------------------------------
(* Vocabulary of the properties *)

\* letters that are the same but for their case
CaseClasses == {{"a", "A"}, {"b", "B"}}

SameLetter(c, d) == c = d \/ \E cls \in CaseClasses : c \in cls /\ d \in cls

\* two symbols are equal when compared case-insensitively
SameIgnoringCase(s, t) ==
    Len(s) = Len(t) /\ \A i \in 1..Len(s) : SameLetter(s[i], t[i])

\* a symbol has no lower-case letter
IsUpperCase(s) == \A i \in 1..Len(s) : s[i] \notin {"a", "b"}

\* the symbols a gene-list file lists, as they are written in it
Entries(source) ==
    CASE source.kind = "txt" ->
            {Strip(source.rows[i].val) : i \in 1..Len(source.rows)} \ {<<>>}
      [] source.kind = "csv" ->
            {source.rows[i].val : i \in {j \in 1..Len(source.rows) : ~source.rows[j].na}}
      [] OTHER -> {}

\* find_common_targets has run
FoundCommon == venn_data # None

\* a build_ppi_network call on a non-empty gene list has returned
Built == last_build.called /\ last_build.genes # <<>>

\* the records the last call got from _query_string_network
Interactions == QueryStringNetwork(last_build.reply)

\* the records of the last call that name the unordered pair e, in either order
RecordsOf(e) ==
    {i \in 1..Len(Interactions) :
        /\ Node1(Interactions[i]) # <<>>
        /\ Node2(Interactions[i]) # <<>>
        /\ {Node1(Interactions[i]), Node2(Interactions[i])} = e}

\* the unordered pairs the records of the last call name
PairsNamed ==
    {{Node1(Interactions[i]), Node2(Interactions[i])} :
        i \in {j \in 1..Len(Interactions) :
                  Node1(Interactions[j]) # <<>> /\ Node2(Interactions[j]) # <<>>}}

Min(a, b) == IF a <= b THEN a ELSE b

----------------------------------------------------------------------------
(* C1 *)

\* C1: once find_common_targets has run on two loaded gene lists, the list it
\* stored holds no symbol twice; its symbols are exactly the upper-case forms
\* of the symbols that the two files both list when compared
\* case-insensitively; swapping the two lists gives the same set; and it is
\* no longer than the smaller of the two sets.
C1_CommonIsCaseInsensitiveIntersection ==
    FoundCommon =>
        /\ NoDuplicates(common_targets)
        /\ \A g \in ToSet(common_targets) :
              /\ IsUpperCase(g)
              /\ \E x \in Entries(drug_source), y \in Entries(disease_source) :
                    SameIgnoringCase(x, y) /\ SameIgnoringCase(g, x)
        /\ \A x \in Entries(drug_source), y \in Entries(disease_source) :
              SameIgnoringCase(x, y) =>
                  \E g \in ToSet(common_targets) : SameIgnoringCase(g, x)
        /\ ToSet(common_targets) = CommonSet(disease_genes, drug_targets)
        /\ Len(common_targets) <= Min(Cardinality(ToSet(drug_targets)),
                                      Cardinality(ToSet(disease_genes)))

\* find_common_targets has run on files that list one gene in different
\* cases and another gene in one file only
C1_Witness ==
    /\ FoundCommon
    /\ common_targets # <<>>
    /\ \E x \in Entries(drug_source), y \in Entries(disease_source) :
          x # y /\ SameIgnoringCase(x, y)
    /\ venn_data[1].drug_targets_only # {}

----------------------------------------------------------------------------
(* C2 *)

\* C2: the graph a build_ppi_network call returns for a non-empty gene list
\* has every gene of the list among its nodes, so at least as many nodes as
\* the list has distinct genes, and both endpoints of each of its edges are
\* nodes of it.
C2_GenesAreNodesAndEdgesJoinNodes ==
    Built =>
        /\ ToSet(last_build.genes) \subseteq Nodes(last_build.returned)
        /\ Len(last_build.returned.nodes) >= Cardinality(ToSet(last_build.genes))
        /\ \A e \in Edges(last_build.returned) : e \subseteq Nodes(last_build.returned)

\* a graph was built with an edge and with a gene that no record names
C2_Witness ==
    /\ Built
    /\ Edges(last_build.returned) # {}
    /\ \E g \in ToSet(last_build.genes) : \A e \in PairsNamed : g \notin e

----------------------------------------------------------------------------
(* C3 *)

\* C3: the graph a build_ppi_network call returns has no self-loop: each of
\* its edges joins two different nodes.
C3_NoSelfLoop ==
    Built => \A e \in Edges(last_build.returned) : Cardinality(e) = 2

----------------------------------------------------------------------------
(* C4 *)

\* C4 as claimed: each pair the records name has one edge, and its weight is
\* the largest confidence among the records of the pair.
C4_WeightIsMaximum ==
    Built =>
        /\ Edges(last_build.returned) = PairsNamed
        /\ \A e \in Edges(last_build.returned) :
              /\ \E i \in RecordsOf(e) : last_build.returned.edges[e] = Score(Interactions[i])
              /\ \A i \in RecordsOf(e) : last_build.returned.edges[e] >= Score(Interactions[i])

\* C4 as amended: each pair the records name has one edge, and its weight is
\* the confidence of the last record of the pair in the order of arrival.
C4_WeightIsLastRecord ==
    Built =>
        /\ Edges(last_build.returned) = PairsNamed
        /\ \A e \in Edges(last_build.returned) :
              \E i \in RecordsOf(e) :
                  /\ \A j \in RecordsOf(e) : j <= i
                  /\ last_build.returned.edges[e] = Score(Interactions[i])

\* two records named one pair in opposite endpoint order, the later one with
\* the smaller confidence
C4_Witness ==
    /\ Built
    /\ \E e \in Edges(last_build.returned) : \E i, j \in RecordsOf(e) :
          /\ i < j
          /\ Node1(Interactions[i]) = Node2(Interactions[j])
          /\ Node1(Interactions[i]) # Node1(Interactions[j])
          /\ Score(Interactions[j]) < Score(Interactions[i])
          /\ last_build.returned.edges[e] = Score(Interactions[j])

----------------------------------------------------------------------------
(* C5 *)

\* C5: every edge of the built graph comes from a record whose confidence is
\* at least the score threshold.
C5_EdgesReachThreshold ==
    Built =>
        \A e \in Edges(last_build.returned) :
            \E i \in RecordsOf(e) : Score(Interactions[i]) >= ScoreThreshold

----------------------------------------------------------------------------
(* C6 *)

\* C6: the nodes of the built graph are the genes of the input list and no
\* others.
C6_NodesAreTheGenes ==
    Built => Nodes(last_build.returned) = ToSet(last_build.genes)

----------------------------------------------------------------------------
(* C7 *)

\* C7: when the input genes are upper-case symbols, no two different nodes
\* of the built graph are the same symbol up to letter case.
C7_NoNodesApartByCase ==
    (Built /\ \A g \in ToSet(last_build.genes) : IsUpperCase(g)) =>
        \A n, m \in Nodes(last_build.returned) : SameIgnoringCase(n, m) => n = m

----------------------------------------------------------------------------
(* C8 *)

\* a step is a build_ppi_network call
BuildStep == calls' = calls + 1

----------------------------------------------------------------------------
(* C9 *)

\* the request of the last call failed
QueryFailed == last_build.called /\ last_build.reply.status \in {"exception", "http_error"}

\* C9: when the request fails the call raises, self.network is not the graph
\* made for the failed query, and save_network has not written that graph.
C9_FailureIsRaisedAndNothingPublished ==
    QueryFailed =>
        /\ last_build.outcome = "raised"
        /\ network # Some(last_build.returned)
        /\ exported # Some(Export(last_build.returned))

----------------------------------------------------------------------------
(* C10 *)

\* C10: a call on a non-empty gene list whose query is answered with no
\* record returns a graph whose nodes are the genes of the list, with no
\* edge, every node of degree 0.
C10_NoRecordsGiveIsolatedGenes ==
    (Built /\ last_build.reply = Reply("ok", <<>>)) =>
        /\ last_build.outcome = "returned"
        /\ Nodes(last_build.returned) = ToSet(last_build.genes)
        /\ Edges(last_build.returned) = {}
        /\ \A n \in Nodes(last_build.returned) : Degree(last_build.returned, n) = 0
        /\ network = Some(last_build.returned)

\* a call on two genes was answered with no record
C10_Witness ==
    /\ Built
    /\ last_build.reply = Reply("ok", <<>>)
    /\ Cardinality(ToSet(last_build.genes)) = 2
    /\ Len(last_build.returned.nodes) = 2

----------------------------------------------------------------------------
(* Vocabulary of the properties of the analysis *)

\* the last call on the analyzer was identify_hub_genes
RankCall == last_call.op = "identify_hub_genes"

\* the top_n of the last identify_hub_genes call, the default for None
TopN == Get(last_call.top_n, TopNDefault)

\* the network the analyzer holds
Analysed == analyzer.network[1]

\* the analyzer holds a network with at least one node
HasNodes == analyzer.made /\ analyzer.network # None /\ Analysed.nodes # <<>>

\* a list of records is in non-increasing order of the ranking key of a method
OrderedByKey(hubs, method) ==
    \A i \in 1..(Len(hubs) - 1) :
        RatLeq(SortColumn(hubs[i + 1], method), SortColumn(hubs[i], method))

\* the genes of a list of records, in order
GenesOf(hubs) == [i \in 1..Len(hubs) |-> hubs[i].gene]

\* what C11 says of a call: it returned min(top_n, node count) records, in
\* non-increasing order of the key, the first of the largest degree when
\* the method is degree
CountAndOrder ==
    /\ last_call.outcome = "returned"
    /\ Len(last_call.hubs) = Min(TopN, Len(Analysed.nodes))
    /\ OrderedByKey(last_call.hubs, last_call.method)
    /\ (last_call.method = "degree" /\ last_call.hubs # <<>>) =>
           \A n \in Nodes(Analysed) :
               Degree(Analysed, n) <= Degree(Analysed, last_call.hubs[1].gene)

----------------------------------------------------------------------------
(* C11 *)

\* C11: an identify_hub_genes call with top_n >= 1 and one of the five
\* methods returns min(top_n, node count) records in non-increasing order of
\* the ranking key of the method; for method degree the first record is a
\* node of the largest degree.
C11_RankingCountAndOrder ==
    (RankCall /\ last_call.method \in Methods /\ TopN >= 1) => CountAndOrder

\* the same on networks that have a node
C11_OnNetworksWithNodes ==
    (RankCall /\ last_call.method \in Methods /\ TopN >= 1 /\ HasNodes) =>
        CountAndOrder

----------------------------------------------------------------------------
(* C12 *)

\* the characters of gene symbols, in the order of their codes
Alphabet == <<"9", "A", "B", "C", "a", "b">>

CharCode(c) == CHOOSE i \in 1..Len(Alphabet) : Alphabet[i] = c

\* s < t for strings: lexicographic order
LexLess(s, t) ==
    \E k \in 1..(Len(s) + 1) :
        /\ k <= Len(t)
        /\ \A i \in 1..(k - 1) : s[i] = t[i]
        /\ k = Len(s) + 1 \/ CharCode(s[k]) < CharCode(t[k])

\* every node of the analysed network with every column of the ranking
AllRanked == WithCombined(CentralityTable(Analysed, analyzer.centrality_metrics))

\* C12: in the list identify_hub_genes returns, a node comes after every
\* node of the same ranking key whose symbol is lexicographically smaller;
\* so no node is returned while a node of the same key and a smaller symbol
\* is left out, whatever the order in which the nodes were inserted.
C12_TiesAreLexicographic ==
    (RankCall /\ last_call.outcome = "returned") =>
        \A i \in 1..Len(last_call.hubs), r \in 1..Len(AllRanked) :
            (/\ SortColumn(AllRanked[r], last_call.method)
                    = SortColumn(last_call.hubs[i], last_call.method)
             /\ LexLess(AllRanked[r].gene, last_call.hubs[i].gene)) =>
                \E j \in 1..(i - 1) : last_call.hubs[j].gene = AllRanked[r].gene

----------------------------------------------------------------------------
(* C13 *)

\* a - b, for a >= b
RatSub(a, b) == Frac(a.num * b.den - b.num * a.den, a.den * b.den)

\* min of the fractions f[x], x in S, S not empty
MinRat(f, S) == LET x == CHOOSE y \in S : \A z \in S : RatLeq(f[y], f[z]) IN f[x]

\* the columns of the centrality table of the analysed network
Column(name) ==
    [r \in 1..Len(AllRanked) |->
        CASE name = "degree" -> AllRanked[r].degree_centrality
          [] name = "betweenness" -> AllRanked[r].betweenness_centrality
          [] name = "closeness" -> AllRanked[r].closeness_centrality
          [] name = "eigenvector" -> AllRanked[r].eigenvector_centrality]

\* x min-max normalised in its column: (x - min) / (max - min), and 0 in a
\* column whose largest value is 0
MinMax(name, x) ==
    LET lo == MinRat(Column(name), DOMAIN Column(name))
        hi == MaxRat(Column(name), DOMAIN Column(name))
    IN  IF hi = Zero THEN Zero ELSE RatDiv(RatSub(x, lo), RatSub(hi, lo))

\* a column has two different values
Spread(name) ==
    MinRat(Column(name), DOMAIN Column(name)) # MaxRat(Column(name), DOMAIN Column(name))

\* the last call ranked by the combined score
CombinedCall == RankCall /\ last_call.outcome = "returned" /\ last_call.method = "combined"

\* C13: for method combined, the normalised value of each centrality of a
\* record is the min-max normalisation of the centrality across all nodes
\* (zero in a column whose maximum is 0), combined_score is the mean of the
\* four normalised values, and it lies in [0, 1].
C13_CombinedIsMeanOfMinMax ==
    CombinedCall =>
        \A i \in 1..Len(last_call.hubs) :
            LET h == last_call.hubs[i]
                norm == h.norm[1]
            IN  /\ (Spread("degree") \/ h.degree_centrality = Zero) =>
                       norm.degree = MinMax("degree", h.degree_centrality)
                /\ (Spread("betweenness") \/ h.betweenness_centrality = Zero) =>
                       norm.betweenness = MinMax("betweenness", h.betweenness_centrality)
                /\ (Spread("closeness") \/ h.closeness_centrality = Zero) =>
                       norm.closeness = MinMax("closeness", h.closeness_centrality)
                /\ (Spread("eigenvector") \/ h.eigenvector_centrality = Zero) =>
                       norm.eigenvector = MinMax("eigenvector", h.eigenvector_centrality)
                /\ h.combined_score[1] = MeanOfNorms(norm)
                /\ RatLeq(Zero, h.combined_score[1])
                /\ RatLeq(h.combined_score[1], One)

\* what the code computes: each centrality divided by the largest of its
\* column (zero in a column whose maximum is 0), the mean of the four, in
\* [0, 1]
C13_CombinedIsMeanOfShareOfMax ==
    CombinedCall =>
        \A i \in 1..Len(last_call.hubs) :
            LET h == last_call.hubs[i]
                norm == h.norm[1]
                share(name, x) ==
                    LET hi == MaxRat(Column(name), DOMAIN Column(name))
                    IN  IF hi = Zero THEN Zero ELSE RatDiv(x, hi)
            IN  /\ norm.degree = share("degree", h.degree_centrality)
                /\ norm.betweenness = share("betweenness", h.betweenness_centrality)
                /\ norm.closeness = share("closeness", h.closeness_centrality)
                /\ norm.eigenvector = share("eigenvector", h.eigenvector_centrality)
                /\ h.combined_score[1] = MeanOfNorms(norm)
                /\ RatLeq(Zero, h.combined_score[1])
                /\ RatLeq(h.combined_score[1], One)

----------------------------------------------------------------------------
(* C14 *)

\* a step is an identify_hub_genes call
IdentifyStep == analyzer.made /\ last_call'.op = "identify_hub_genes"

\* C14: an identify_hub_genes call with top_n <= 0 or with a method that is
\* none of the five raises an error, returns no list, and leaves
\* analyzer.hub_genes as it was.
C14_InvalidArgumentsRaise ==
    [][(/\ IdentifyStep
        /\ \/ Get(last_call'.top_n, TopNDefault) <= 0
           \/ last_call'.method \notin Methods) =>
          /\ last_call'.outcome = "raised"
          /\ last_call'.hubs = <<>>
          /\ analyzer'.hub_genes = analyzer.hub_genes]_vars

\* the part of C14 that is about the method: a call with a method that is
\* none of the five raises and leaves analyzer.hub_genes as it was
C14_UnknownMethodRaises ==
    [][(IdentifyStep /\ last_call'.method \notin Methods) =>
          /\ last_call'.outcome = "raised"
          /\ last_call'.hubs = <<>>
          /\ analyzer'.hub_genes = analyzer.hub_genes]_vars

----------------------------------------------------------------------------
(* C15 *)

\* a step is a calculate_all_centralities call: the builder and the network
\* of the analyzer stay as they are and the call is recorded
CalculateStep ==
    /\ analyzer.made
    /\ UNCHANGED builder
    /\ analyzer'.network = analyzer.network
    /\ analyzer'.converges = analyzer.converges
    /\ last_call'.op = "calculate_all_centralities"

\* C15: when the power iteration does not converge on the network the
\* analyzer holds, calculate_all_centralities returns, the eigenvector
\* centrality it reports for every node of that network is 0, and
\* identify_hub_genes with method combined returns a ranking.
C15_NoConvergenceGivesZeros ==
    [][(CalculateStep /\ HasNodes /\ ~analyzer.converges) =>
          /\ last_call'.outcome = "returned"
          /\ \A i \in 1..Len(last_call'.table) :
                 last_call'.table[i].eigenvector_centrality = Zero
          /\ IdentifyHubGenes(analyzer, None, "combined").call.outcome = "returned"]_vars

\* the same on an analyzer that has stored no eigenvector centrality yet
C15_FirstCalculationGivesZeros ==
    [][(/\ CalculateStep /\ HasNodes /\ ~analyzer.converges
        /\ analyzer.centrality_metrics.eigenvector = NoEntries) =>
          /\ last_call'.outcome = "returned"
          /\ \A i \in 1..Len(last_call'.table) :
                 last_call'.table[i].eigenvector_centrality = Zero
          /\ IdentifyHubGenes(analyzer, None, "combined").call.outcome = "returned"]_vars

----------------------------------------------------------------------------
(* C16 *)

\* the analyzer has stored the degree centrality of the network it holds
DegreeStored ==
    HasNodes /\ DOMAIN analyzer.centrality_metrics.degree = Nodes(Analysed)

\* a node is adjacent to every other node
AdjacentToAll(g, n) == \A m \in Nodes(g) \ {n} : {n, m} \in Edges(g)

\* C16: the degree centrality stored for a node of a built network lies in
\* [0, 1], and it is 1 for a node adjacent to all the other nodes.
C16_DegreeCentralityInUnitInterval ==
    DegreeStored =>
        \A n \in Nodes(Analysed) :
            /\ RatLeq(Zero, analyzer.centrality_metrics.degree[n])
            /\ RatLeq(analyzer.centrality_metrics.degree[n], One)
            /\ AdjacentToAll(Analysed, n) => analyzer.centrality_metrics.degree[n] = One

\* the same on built networks with no self-loop
C16_WithoutSelfLoops ==
    (DegreeStored /\ \A e \in Edges(Analysed) : Cardinality(e) = 2) =>
        \A n \in Nodes(Analysed) :
            /\ RatLeq(Zero, analyzer.centrality_metrics.degree[n])
            /\ RatLeq(analyzer.centrality_metrics.degree[n], One)
            /\ AdjacentToAll(Analysed, n) => analyzer.centrality_metrics.degree[n] = One

----------------------------------------------------------------------------
(* C17 *)

\* C17: the degree centrality stored for the node of a network of exactly
\* one node is 0.
C17_SingleNodeDegreeCentralityIsZero ==
    (DegreeStored /\ Len(Analysed.nodes) = 1) =>
        analyzer.centrality_metrics.degree[Analysed.nodes[1]] = Zero

----------------------------------------------------------------------------
(* C18 *)

\* the genes of the last build that no record of its answer names
IsolatedGenes == {g \in ToSet(last_build.genes) : \A e \in PairsNamed : g \notin e}

\* the analyzer holds the network the last build returned
AnalysedIsBuilt == Built /\ HasNodes /\ Analysed = last_build.returned

\* the last call on the analyzer was op and it returned
Returned(op) == last_call.op = op /\ last_call.outcome = "returned"

\* C18: a gene of the input list that no record names is a node of the
\* built graph with degree 0; get_network_statistics counts it in "nodes";
\* the table of calculate_all_centralities has exactly one row for each
\* node of the graph, the row of such a gene with degree 0.
C18_IsolatedGenesAreKept ==
    AnalysedIsBuilt =>
        /\ \A g \in IsolatedGenes : g \in Nodes(Analysed) /\ Degree(Analysed, g) = 0
        /\ Returned("get_network_statistics") =>
               last_call.stats.nodes = Cardinality(Nodes(Analysed))
        /\ Returned("calculate_all_centralities") =>
               /\ \A n \in Nodes(Analysed) :
                      Cardinality({i \in 1..Len(last_call.table) :
                                      last_call.table[i].gene = n}) = 1
               /\ \A i \in 1..Len(last_call.table) :
                      /\ last_call.table[i].gene \in Nodes(Analysed)
                      /\ last_call.table[i].gene \in IsolatedGenes =>
                             last_call.table[i].degree = 0

\* the table was calculated for a built network that has an edge and a
\* gene that no record names
C18_Witness ==
    /\ AnalysedIsBuilt
    /\ Returned("calculate_all_centralities")
    /\ Edges(Analysed) # {}
    /\ IsolatedGenes # {}
    /\ Len(last_call.table) = 3

----------------------------------------------------------------------------
(* C19 *)

\* there is a walk of k edges of g from s to t
Walk(g, s, t, k) ==
    \E w \in [1..(k + 1) -> Nodes(g)] :
        /\ w[1] = s
        /\ w[k + 1] = t
        /\ \A i \in 1..k : {w[i], w[i + 1]} \in Edges(g)

\* s and t are joined by a walk of g
Joined(g, s, t) == \E k \in 0..(Len(g.nodes) - 1) : Walk(g, s, t, k)

\* the number of edges of a shortest walk between two joined nodes
Distance(g, s, t) ==
    CHOOSE k \in 0..(Len(g.nodes) - 1) :
        Walk(g, s, t, k) /\ \A j \in 0..(k - 1) : ~Walk(g, s, t, j)

\* the classes of nodes joined to each other
Components(g) == {{t \in Nodes(g) : Joined(g, s, t)} : s \in Nodes(g)}

\* the classes of the largest size
LargestComponents(g) ==
    {c \in Components(g) : \A d \in Components(g) : Cardinality(d) <= Cardinality(c)}

\* the largest distance between two nodes of the class c
DiameterOf(g, c) ==
    LET far == {Distance(g, s, t) : s \in c, t \in c}
    IN  CHOOSE d \in far : \A x \in far : x <= d

\* the mean distance over the ordered pairs of distinct nodes of the class c
MeanDistanceOf(g, c) ==
    LET n == Cardinality(c)
        total == SumInt([s \in c |-> SumInt([t \in c |-> Distance(g, s, t)], c)], c)
    IN  IF n = 1 THEN Zero ELSE Frac(total, n * (n - 1))

\* the statistics report the diameter and the mean distance of the whole graph
WholeGraphReported(stats, g) ==
    /\ stats.diameter = Some(DiameterOf(g, Nodes(g)))
    /\ stats.average_path_length = Some(MeanDistanceOf(g, Nodes(g)))

\* the statistics report the diameter and the mean distance of a largest class
LargestReported(stats, g) ==
    \E c \in LargestComponents(g) :
        /\ stats.diameter_largest = Some(DiameterOf(g, c))
        /\ stats.average_path_length_largest = Some(MeanDistanceOf(g, c))

\* the statistics report the number of classes and the size of the largest
ComponentsCounted(stats, g) ==
    /\ stats.number_of_components = Some(Cardinality(Components(g)))
    /\ \E c \in LargestComponents(g) :
           stats.largest_component_nodes = Some(Cardinality(c))

\* get_network_statistics was the last call and it returned
StatisticsReturned == HasNodes /\ Returned("get_network_statistics")

\* C19: on a connected graph get_network_statistics reports the diameter
\* and the average shortest-path length of the whole graph; on a
\* disconnected graph it reports the number of components and the diameter
\* and the average shortest-path length of the largest component.
C19_LargestComponentAlwaysMeasured ==
    StatisticsReturned =>
        IF Cardinality(Components(Analysed)) = 1
        THEN WholeGraphReported(last_call.stats, Analysed)
        ELSE /\ ComponentsCounted(last_call.stats, Analysed)
             /\ LargestReported(last_call.stats, Analysed)

\* C19 as the code has it: on a disconnected graph the diameter and the
\* average shortest-path length of the largest component are reported when
\* that component has more than one node and left out when it is a single
\* node; the number of components and the size of the largest component
\* are reported in both cases, and nothing is reported for the whole graph.
C19_LargestComponentMeasuredWhenNotSingle ==
    StatisticsReturned =>
        IF Cardinality(Components(Analysed)) = 1
        THEN /\ WholeGraphReported(last_call.stats, Analysed)
             /\ last_call.stats.number_of_components = None
             /\ last_call.stats.diameter_largest = None
             /\ last_call.stats.average_path_length_largest = None
        ELSE /\ ComponentsCounted(last_call.stats, Analysed)
             /\ last_call.stats.diameter = None
             /\ last_call.stats.average_path_length = None
             /\ IF \E c \in LargestComponents(Analysed) : Cardinality(c) > 1
                THEN LargestReported(last_call.stats, Analysed)
                ELSE /\ last_call.stats.diameter_largest = None
                     /\ last_call.stats.average_path_length_largest = None

\* statistics were returned for a disconnected graph whose largest
\* component has two nodes and whose last component has one
C19_Witness ==
    /\ StatisticsReturned
    /\ Cardinality(Components(Analysed)) = 2
    /\ last_call.stats.largest_component_nodes = Some(2)
    /\ last_call.stats.diameter_largest = Some(1)

----------------------------------------------------------------------------
(* C20 *)

\* the number of distinct genes the last build was given
GenesGiven == Cardinality(ToSet(last_build.genes))

\* the network analysed is the one the last build made and the service
\* answered that build with no record
BuiltWithoutRecords == AnalysedIsBuilt /\ Interactions = <<>>

\* C20: after build_ppi_network on n >= 2 distinct genes with an empty
\* interaction response, get_network_statistics returns nodes = n,
\* edges = 0, density = 0 and number_of_components = n.
C20_IsolatedNetworkStatistics ==
    (/\ BuiltWithoutRecords
     /\ GenesGiven >= 2
     /\ last_call.op = "get_network_statistics") =>
        /\ last_call.outcome = "returned"
        /\ last_call.stats.nodes = GenesGiven
        /\ last_call.stats.edges = 0
        /\ last_call.stats.density = Zero
        /\ last_call.stats.number_of_components = Some(GenesGiven)

\* statistics were taken of the network built from three genes and no record
C20_Witness ==
    /\ BuiltWithoutRecords
    /\ GenesGiven = 3
    /\ Returned("get_network_statistics")
    /\ last_call.stats.nodes = 3

----------------------------------------------------------------------------
(* C21 *)

\* the graph the last perform_clustering call was made on
Clustered == clustering.graph[1]

\* a perform_clustering call has returned for a graph that has a node
ClusteringReturned ==
    /\ clustering.called
    /\ clustering.outcome = "returned"
    /\ Clustered.nodes # <<>>

\* the clusters of the dict are a partition of the nodes of the graph: no
\* cluster is empty, every node is in one cluster and in one only
IsPartition(clusters, nodes) ==
    /\ \A i \in 1..Len(clusters) : clusters[i] # {} /\ clusters[i] \subseteq nodes
    /\ \A n \in nodes : Cardinality({i \in 1..Len(clusters) : n \in clusters[i]}) = 1

\* C21: for every graph that has a node, the clusters perform_clustering
\* returns are a partition of the node set: their union is the node set and
\* they are pairwise disjoint.
C21_ClustersArePartition ==
    ClusteringReturned => IsPartition(clustering.clusters, Nodes(Clustered))

\* the same when the community detection raised nothing
C21_PartitionUnlessCaught ==
    (ClusteringReturned /\ clustering.caught = "") =>
        IsPartition(clustering.clusters, Nodes(Clustered))

----------------------------------------------------------------------------
(* C22 *)

\* a step is a perform_clustering call that follows another on the same
\* graph, both having returned
ClusteredAgain ==
    /\ clustering.called
    /\ clustering.outcome = "returned"
    /\ clustering'.called
    /\ clustering'.outcome = "returned"
    /\ clustering'.graph = clustering.graph

\* C22: two perform_clustering calls on the same graph return the same
\* mapping of cluster ids to members; the seed the claim names is no argument
\* of the call, so the two calls are all there is to compare.
C22_ClusteringIsReproducible ==
    [][ClusteredAgain => clustering'.clusters = clustering.clusters]_vars

----------------------------------------------------------------------------
(* C23 *)

\* the calls i and j were given the same gene list and the service gave
\* them the same records
SameInputs(i, j) ==
    /\ builds[i].genes = builds[j].genes
    /\ QueryStringNetwork(builds[i].reply) = QueryStringNetwork(builds[j].reply)

\* C23: two build_ppi_network calls with the same gene list, the service
\* returning the same records, give graphs with the same nodes and the same
\* edges, weights included.
C23_SameInputsSameGraph ==
    \A i, j \in 1..Len(builds) :
        (i < j /\ SameInputs(i, j)) =>
            /\ Nodes(builds[i].returned) = Nodes(builds[j].returned)
            /\ builds[i].returned.edges = builds[j].returned.edges

\* a builder has built twice from the same genes and the same records, which
\* name a pair
C23_Witness ==
    /\ Len(builds) = 2
    /\ SameInputs(1, 2)
    /\ Edges(builds[2].returned) # {}
    /\ network = Some(builds[2].returned)

----------------------------------------------------------------------------
(* C24 *)

----------------------------------------------------------------------------
(* C25 *)

\* C25: a build_ppi_network call makes a graph object that was not there,
\* a call on genes makes self.network that object, and no step changes the
\* nodes or the edges of an object an earlier call has returned, the one an
\* analyzer was given included.
C25_ReturnedGraphsAreNotChanged ==
    [][/\ Len(graphs') >= Len(graphs)
       /\ \A id \in 1..Len(graphs) : graphs'[id] = graphs[id]
       /\ BuildStep =>
              /\ Len(graphs') = Len(graphs) + 1
              /\ graphs'[Len(graphs')] = last_build'.returned
              /\ last_build'.genes # <<>> => network_id' = Len(graphs')]_vars

\* an analyzer holds the graph of a pair that the first call returned, and
\* the builder has since built another graph
C25_Witness ==
    /\ Len(graphs) = 2
    /\ Edges(graphs[1]) # {}
    /\ analyzer.made
    /\ analyzer.network = Some(graphs[1])
    /\ network_id = 2
    /\ graphs[2] # graphs[1]
    /\ graphs[2].nodes # <<>>

----------------------------------------------------------------------------
(* C26 *)

\* the analyzer was given the graph of a build that had no gene to build
\* from, as build_network does when there are no common targets
AnalysedWithoutGenes ==
    /\ analyzer.made
    /\ last_build.called
    /\ last_build.genes = <<>>
    /\ analyzer.network = Some(EmptyGraph)

\* C26: on the empty graph of a build without genes, identify_hub_genes and
\* get_network_statistics return and raise nothing.
C26_EmptyGraphIsAnalysed ==
    (/\ AnalysedWithoutGenes
     /\ last_call.op \in {"identify_hub_genes", "get_network_statistics"}) =>
        last_call.outcome = "returned"

\* the part of C26 that holds: on the empty graph the two calls raise
\* NetworkXPointlessConcept, from nx.eigenvector_centrality and from
\* nx.is_connected
C26_EmptyGraphRaises ==
    (/\ AnalysedWithoutGenes
     /\ last_call.op \in {"identify_hub_genes", "get_network_statistics"}) =>
        /\ last_call.outcome = "raised"
        /\ last_call.error = "NetworkXPointlessConcept"

----------------------------------------------------------------------------
(* C27 *)

\* the table computed from the network the analyzer holds and from nothing
\* stored before: an eigenvector centrality of 0 where the iteration fails
TableOfCurrentNetwork ==
    CentralityTable(Analysed, MetricsAfter(NoMetrics, Analysed, analyzer.converges))

\* C27: whatever networks the analyzer held before, the table that
\* calculate_all_centralities returns holds the values computed from the
\* network the analyzer holds now.
C27_TableIsOfCurrentNetwork ==
    [][(CalculateStep /\ HasNodes /\ last_call'.outcome = "returned") =>
          last_call'.table = TableOfCurrentNetwork]_vars

\* the part of C27 that holds: the degree, betweenness and closeness columns
\* are those of the current network, and so is the eigenvector column when
\* the iteration converges or nothing was stored before
C27_OtherColumnsAreCurrent ==
    [][(CalculateStep /\ HasNodes /\ last_call'.outcome = "returned") =>
          /\ Len(last_call'.table) = Len(TableOfCurrentNetwork)
          /\ \A i \in 1..Len(last_call'.table) :
                 LET row == last_call'.table[i]
                     now == TableOfCurrentNetwork[i]
                 IN  /\ row.gene = now.gene
                     /\ row.degree = now.degree
                     /\ row.degree_centrality = now.degree_centrality
                     /\ row.betweenness_centrality = now.betweenness_centrality
                     /\ row.closeness_centrality = now.closeness_centrality
                     /\ (\/ analyzer.converges
                         \/ analyzer.centrality_metrics.eigenvector = NoEntries) =>
                            row.eigenvector_centrality = now.eigenvector_centrality]_vars

----------------------------------------------------------------------------
(* C28 *)

\* a step is a save_network call: no build happens and the call is counted
SaveStep == calls' = calls /\ saved_at' = calls /\ network' = network

\* C28: a call on an empty gene list returns a new graph with no node and
\* leaves self.network as it was; a save_network call writes the files of
\* the network the builder holds, the one an earlier call on genes stored,
\* and it writes nothing when the builder holds none.
C28_EmptyBuildLeavesNetworkToSave ==
    [][/\ (BuildStep /\ last_build'.genes = <<>>) =>
              /\ last_build'.returned = EmptyGraph
              /\ graphs'[Len(graphs')] = EmptyGraph
              /\ Len(graphs') = Len(graphs) + 1
              /\ network_id' = network_id
              /\ network' = network
       /\ (SaveStep /\ ~BuildStep) =>
              /\ network = None => exported' = exported
              /\ network # None =>
                     /\ network_id # 0
                     /\ network = Some(graphs[network_id])
                     /\ builds[network_id].genes # <<>>
                     /\ exported' = Some(Export(graphs[network_id]))]_vars

\* a network was built from genes, a call on no gene returned an empty graph,
\* and save_network then wrote the files of the network built first
C28_Witness ==
    /\ calls = 2
    /\ saved_at = 2
    /\ last_build.genes = <<>>
    /\ last_build.returned = EmptyGraph
    /\ network # None
    /\ Edges(network[1]) # {}
    /\ exported = Some(Export(network[1]))
    /\ exported # Some(Export(EmptyGraph))

----------------------------------------------------------------------------
(* C29 *)

\* the last call on the analyzer was an identify_hub_genes call that
\* returned a list
RankReturned ==
    last_call.op = "identify_hub_genes" /\ last_call.outcome = "returned"

\* a step that can be a save_analysis call: the builder, the network of the
\* analyzer and its convergence stay, and the last call is a save_analysis
SaveAnalysisStep ==
    /\ analyzer.made
    /\ UNCHANGED builder
    /\ analyzer'.network = analyzer.network
    /\ analyzer'.converges = analyzer.converges
    /\ last_call'.op = "save_analysis"

\* C29: self.hub_genes is the list the most recent identify_hub_genes call
\* that returned has returned, whatever network the analyzer has loaded
\* since; save_analysis writes hub_genes.csv when that list is not empty,
\* its lines the records of the list in the order of the list, leaves the
\* file alone when the list is empty, and does not change the list.
C29_HubTableIsLastRanking ==
    [][/\ RankReturned' => analyzer'.hub_genes = last_call'.hubs
       /\ analyzer'.hub_genes # analyzer.hub_genes => RankReturned'
       /\ SaveAnalysisStep =>
              /\ analyzer'.hub_genes = analyzer.hub_genes
              /\ analyzer.hub_genes # <<>> =>
                     /\ analysis_files'.hub_genes # None
                     /\ analysis_files'.hub_genes[1].lines =
                            [i \in 1..Len(analyzer.hub_genes) |->
                                HubLine(analyzer.hub_genes[i])]
              /\ analyzer.hub_genes = <<>> =>
                     analysis_files'.hub_genes = analysis_files.hub_genes]_vars

\* hub_genes.csv was written from a ranking made on a network the analyzer
\* has replaced since: a gene of the file is no node of the current network
C29_Witness ==
    /\ analyzer.made
    /\ last_call.op = "save_analysis"
    /\ last_call.outcome = "returned"
    /\ analyzer.hub_genes # <<>>
    /\ analysis_files.hub_genes = Some(HubCsv(analyzer.hub_genes))
    /\ \E i \in 1..Len(analyzer.hub_genes) :
           analyzer.hub_genes[i].gene \notin Nodes(Analysed)

----------------------------------------------------------------------------
(* C30 *)

RECURSIVE TreeOf(_, _)
RECURSIVE Merged(_, _)

\* what a value holds, the identities of the objects left out: the scalar,
\* or the keys of the dict and what the value of each key holds
TreeOf(store, value) ==
    IF value.kind = "scalar" THEN ScalarTree(value.v)
    ELSE DictTree([k \in DOMAIN store[value.v] |-> TreeOf(store, store[value.v][k])])

\* the mapping the rule gives for two mappings: a key of override takes the
\* value of override, but where both values are mappings the two are merged
\* by the same rule; a key of base alone keeps the value of base
Merged(base, override) ==
    DictTree([k \in DOMAIN base.items \cup DOMAIN override.items |->
                 IF k \notin DOMAIN override.items THEN base.items[k]
                 ELSE IF /\ k \in DOMAIN base.items
                         /\ base.items[k].kind = "dict"
                         /\ override.items[k].kind = "dict"
                 THEN Merged(base.items[k], override.items[k])
                 ELSE override.items[k]])

\* the dicts given to the call, as they were before it
BaseGiven == TreeOf(config.before, DictRef(config.base))

OverrideGiven == TreeOf(config.before, DictRef(config.override))

\* C30: _deep_merge(base, override) returns the mapping of the rule, in a
\* dict that is none of the objects there were, and every dict object there
\* was before the call, base and override and the dicts in them, has the
\* entries it had.
C30_DeepMergeFollowsRule ==
    config.called =>
        /\ TreeOf(config.store, DictRef(config.result)) = Merged(BaseGiven, OverrideGiven)
        /\ config.result > Len(config.before)
        /\ \A id \in 1..Len(config.before) : config.store[id] = config.before[id]
        /\ TreeOf(config.store, DictRef(config.base)) = BaseGiven
        /\ TreeOf(config.store, DictRef(config.override)) = OverrideGiven

\* a call has merged two dicts that both map "analysis" to a dict, the one
\* of base with a key the one of override has not, and "output" is a key of
\* base alone
C30_Witness ==
    /\ config.called
    /\ "analysis" \in DOMAIN BaseGiven.items
    /\ "analysis" \in DOMAIN OverrideGiven.items
    /\ BaseGiven.items["analysis"].kind = "dict"
    /\ OverrideGiven.items["analysis"].kind = "dict"
    /\ DOMAIN BaseGiven.items["analysis"].items = {"analysis", "output"}
    /\ DOMAIN OverrideGiven.items["analysis"].items = {"analysis"}
    /\ BaseGiven.items["analysis"].items["analysis"] #
           OverrideGiven.items["analysis"].items["analysis"]
    /\ "output" \in DOMAIN BaseGiven.items
    /\ "output" \notin DOMAIN OverrideGiven.items
    /\ DOMAIN TreeOf(config.store, DictRef(config.result)).items["analysis"].items =
           {"analysis", "output"}

====
